---- MODULE Spec2Model ----
(***************************************************************************)
(* Model of the norrsken backend: the TTL cache (cache_service.py), the    *)
(* weather / aurora record constructors (models/), the source clients'     *)
(* fetch contract (services/*/base.py) and the DataAggregator              *)
(* (services/aggregator.py).                                               *)
(*                                                                         *)
(* Python's Optional[T] is modelled as a sequence of length at most one:   *)
(* None is <<>> and a present value x is <<x>>.                            *)
(***************************************************************************)
EXTENDS Integers, Sequences, FiniteSets, TLC

None == <<>>
Some(x) == <<x>>
Val(o) == o[1]

(***************************************************************************)
(* Bounds of the model.                                                    *)
(***************************************************************************)
\* longest configured client list per domain
MaxClients == 3
\* number of clock advances in one behaviour
MaxTicks == 2
\* number of upstream fetches in one behaviour
MaxFetches == 3
\* largest number of rows and of columns of an interpolation grid
MaxRows == 3
MaxCols == 3

(***************************************************************************)
(* Program constants.                                                      *)
(***************************************************************************)
cache_ttl_aurora == 300
cache_ttl_weather == 1800

Domains == {"aurora", "weather"}
\* request coroutines in flight: Spec runs the requests one after the other
Requests == {"r1"}
\* locations (lat, lon) a request may ask for
Locations == {"loc1"}
\* clock advances: one second, and each of the two TTLs
TickSteps == {1, cache_ttl_aurora, cache_ttl_weather}

\* measurements an upstream provider may report
CloudVals == {20}
VisVals == {None, Some(8)}
PrecipVals == {0}
TempVals == {Some(1)}
KpVals == {3}
ProbVals == {None, Some(35)}
\* timestamps an upstream provider may put on its data
StampVals == {0}

VARIABLES
    cache,          \* CacheService._cache: key -> Optional[CacheEntry]
    now,            \* datetime.utcnow()
    ticks,          \* clock advances so far
    clients,        \* DataAggregator.aurora_clients / weather_clients: domain -> length of the list
    calls,          \* request -> state of its fetch_aurora_data / fetch_weather_data coroutine
    fetches,        \* upstream fetches issued so far
    lock,           \* CacheService._lock: the coroutine holding it, if any
    ops,            \* caller -> state of its CacheService coroutine
    pure            \* the function or route call under study: its arguments, position and result

vars == <<cache, now, ticks, clients, calls, fetches, lock, ops, pure>>

(***************************************************************************)
(* models/weather.py, models/aurora.py                                     *)
(***************************************************************************)
ValidationError == [error |-> "ValidationError"]

\* WeatherData(...): pydantic validates every field; visibility_km is a
\* required float (not Optional), so None is rejected.
WeatherData(source, cloud_cover, visibility_km, precipitation_mm, temperature_c, last_updated) ==
    IF /\ cloud_cover >= 0 /\ cloud_cover <= 100
       /\ visibility_km # None /\ Val(visibility_km) >= 0
       /\ precipitation_mm >= 0
    THEN [source |-> source, cloud_cover |-> cloud_cover, visibility_km |-> visibility_km,
          precipitation_mm |-> precipitation_mm, temperature_c |-> temperature_c,
          last_updated |-> last_updated]
    ELSE ValidationError

\* AuroraData(...): probability is Optional.
AuroraData(source, kp_index, probability, last_updated) ==
    IF /\ kp_index >= 0 /\ kp_index <= 9
       /\ (probability # None => (Val(probability) >= 0 /\ Val(probability) <= 100))
    THEN [source |-> source, kp_index |-> kp_index, probability |-> probability,
          last_updated |-> last_updated]
    ELSE ValidationError

\* model_copy(update={"visibility_km": v}): a copy with one field replaced, no validation
model_copy_visibility(rec, v) == [rec EXCEPT !.visibility_km = v]

(***************************************************************************)
(* services/cache_service.py                                               *)
(***************************************************************************)
\* CacheEntry(value, expires_at)
CacheEntry(value, expires_at) == [value |-> value, expires_at |-> expires_at]

\* mutant of CacheGet: an entry counts as expired already at its expiry time
CacheGet_ExpiredAtExpiry(ch, key, t) ==
    LET entry == ch[key] IN
    IF entry = None
    THEN [value |-> None, cache |-> ch]
    ELSE IF t >= Val(entry).expires_at
         THEN [value |-> None, cache |-> [ch EXCEPT ![key] = None]]
         ELSE [value |-> Some(Val(entry).value), cache |-> ch]

\* mutant of CacheGet: an entry is returned however old it is
CacheGet_NeverExpires(ch, key, t) ==
    LET entry == ch[key] IN
    IF entry = None
    THEN [value |-> None, cache |-> ch]
    ELSE [value |-> Some(Val(entry).value), cache |-> ch]

\* CacheService.get, run under the lock: the returned value and the dictionary afterwards
CacheGet(ch, key, t) ==
    LET entry == ch[key] IN
    IF entry = None
    THEN [value |-> None, cache |-> ch]
    ELSE IF t > Val(entry).expires_at
         THEN [value |-> None, cache |-> [ch EXCEPT ![key] = None]]
         ELSE [value |-> Some(Val(entry).value), cache |-> ch]

\* mutant of CacheSet: an entry that is already there keeps its expiry time
CacheSet_KeepExpiry(ch, key, value, ttl_seconds, t) ==
    [ch EXCEPT ![key] = Some(CacheEntry(value, IF ch[key] = None THEN t + ttl_seconds
                                                ELSE Val(ch[key]).expires_at))]

\* mutant of CacheSet: an entry that is already there is kept (setdefault)
CacheSet_KeepExisting(ch, key, value, ttl_seconds, t) ==
    IF ch[key] = None THEN [ch EXCEPT ![key] = Some(CacheEntry(value, t + ttl_seconds))] ELSE ch

\* CacheService.set, run under the lock
CacheSet(ch, key, value, ttl_seconds, t) ==
    [ch EXCEPT ![key] = Some(CacheEntry(value, t + ttl_seconds))]

(***************************************************************************)
(* services/weather/*.py, services/aurora/*.py: the source clients         *)
(***************************************************************************)
SourceNames ==
    [aurora  |-> <<"noaa_swpc", "auroras_live", "aurora_space", "aurora_4", "aurora_5">>,
     weather |-> <<"met_no", "smhi", "open_meteo", "weather_4", "weather_5">>]

\* client.source_name of the i-th configured client of a domain
source_name(d, i) == SourceNames[d][i]

HTTPError == [error |-> "HTTPError"]
FetchFailed == [error |-> "Exception"]

\* what the upstream provider answers: an error, or a set of measurements
UpstreamWeather ==
    {HTTPError} \cup [cloud_cover : CloudVals, visibility_km : VisVals,
                      precipitation_mm : PrecipVals, temperature_c : TempVals,
                      time : StampVals]
UpstreamAurora ==
    {HTTPError} \cup [kp_index : KpVals, probability : ProbVals, time : StampVals]
Upstream(d) == IF d = "weather" THEN UpstreamWeather ELSE UpstreamAurora

\* WeatherSourceBase.fetch_data: the record built from the answer; an HTTP
\* error and a constructor ValueError are both re-raised as Exception
weather_fetch_data(name, answer) ==
    IF answer = HTTPError THEN FetchFailed
    ELSE LET rec == WeatherData(name, answer.cloud_cover, answer.visibility_km,
                                answer.precipitation_mm, answer.temperature_c, answer.time)
         IN IF rec = ValidationError THEN FetchFailed ELSE rec

\* mutant of aurora_fetch_data: an HTTP error yields a placeholder record instead of raising
aurora_fetch_data_PlaceholderOnError(name, answer) ==
    IF answer = HTTPError THEN AuroraData(name, 0, None, 0)
    ELSE LET rec == AuroraData(name, answer.kp_index, answer.probability, answer.time)
         IN IF rec = ValidationError THEN FetchFailed ELSE rec
\* AuroraSourceBase.fetch_data
aurora_fetch_data(name, answer) ==
    IF answer = HTTPError THEN FetchFailed
    ELSE LET rec == AuroraData(name, answer.kp_index, answer.probability, answer.time)
         IN IF rec = ValidationError THEN FetchFailed ELSE rec

fetch_data(d, name, answer) ==
    IF d = "weather" THEN weather_fetch_data(name, answer)
    ELSE aurora_fetch_data(name, answer)

(***************************************************************************)
(* services/aggregator.py                                                  *)
(***************************************************************************)
\* f"aurora_{client.source_name}_{lat}_{lon}" / f"weather_..."
cache_key(d, name, loc) == <<d, name, loc>>

Keys == {cache_key(d, source_name(d, i), loc) : d \in Domains, i \in 1..MaxClients, loc \in Locations}

\* mutant of cache_ttl: the two methods use each other's TTL
cache_ttl_Swapped(d) == IF d = "aurora" THEN cache_ttl_weather ELSE cache_ttl_aurora

\* settings.cache_ttl_aurora / settings.cache_ttl_weather as used by the two methods
cache_ttl(d) == IF d = "aurora" THEN cache_ttl_aurora ELSE cache_ttl_weather

\* results[k] if len(results) > k else None
ResultAt(results, k) == IF Len(results) >= k THEN results[k] ELSE None

\* mutant of PromoteAurora: the secondary is promoted but the tertiary does not move up
PromoteAurora_NoShift(results) ==
    LET primary == ResultAt(results, 1)
        secondary == ResultAt(results, 2)
        tertiary == ResultAt(results, 3)
    IN IF primary = None /\ secondary # None
       THEN [primary |-> secondary, secondary |-> None, tertiary |-> tertiary]
       ELSE [primary |-> primary, secondary |-> secondary, tertiary |-> tertiary]

\* mutant of PromoteAurora: the present slots are always compacted
PromoteAurora_Compact(results) ==
    LET present == SelectSeq(SubSeq(results, 1, IF Len(results) < 3 THEN Len(results) ELSE 3),
                             LAMBDA x : x # None)
    IN [primary |-> ResultAt(present, 1), secondary |-> ResultAt(present, 2),
        tertiary |-> ResultAt(present, 3)]

\* mutant of PromoteAurora: a record that carries a probability is preferred as primary
PromoteAurora_PreferProbability(results) ==
    LET primary == ResultAt(results, 1)
        secondary == ResultAt(results, 2)
        tertiary == ResultAt(results, 3)
        poor(x) == x = None \/ Val(x).probability = None
    IN IF poor(primary) /\ secondary # None
       THEN [primary |-> secondary, secondary |-> tertiary, tertiary |-> None]
       ELSE [primary |-> primary, secondary |-> secondary, tertiary |-> tertiary]

\* fetch_aurora_data, lines 79-88: the slots after promotion
PromoteAurora(results) ==
    LET primary == ResultAt(results, 1)
        secondary == ResultAt(results, 2)
        tertiary == ResultAt(results, 3)
    IN IF primary = None /\ secondary # None
       THEN [primary |-> secondary, secondary |-> tertiary, tertiary |-> None]
       ELSE [primary |-> primary, secondary |-> secondary, tertiary |-> tertiary]

\* mutant of PromoteWeather: the tertiary is never promoted to primary
PromoteWeather_NoTertiary(results) ==
    LET primary == ResultAt(results, 1)
        secondary == ResultAt(results, 2)
        tertiary == ResultAt(results, 3)
    IN IF primary = None /\ secondary # None
       THEN [primary |-> secondary, secondary |-> tertiary, tertiary |-> None]
       ELSE [primary |-> primary, secondary |-> secondary, tertiary |-> tertiary]

\* fetch_weather_data, lines 144-156: the slots after promotion
PromoteWeather(results) ==
    LET primary == ResultAt(results, 1)
        secondary == ResultAt(results, 2)
        tertiary == ResultAt(results, 3)
    IN IF primary = None /\ secondary # None
       THEN [primary |-> secondary, secondary |-> tertiary, tertiary |-> None]
       ELSE IF primary = None /\ tertiary # None
            THEN [primary |-> tertiary, secondary |-> secondary, tertiary |-> None]
            ELSE [primary |-> primary, secondary |-> secondary, tertiary |-> tertiary]

\* fetch_weather_data, lines 163-175: the primary after the visibility patch
PatchVisibility(primary, secondary, tertiary) ==
    IF primary.visibility_km = None
    THEN LET best_vis ==
                 IF secondary # None /\ Val(secondary).visibility_km # None
                 THEN Val(secondary).visibility_km
                 ELSE IF tertiary # None /\ Val(tertiary).visibility_km # None
                      THEN Val(tertiary).visibility_km
                      ELSE None
         IN IF best_vis # None THEN model_copy_visibility(primary, best_vis) ELSE primary
    ELSE primary

\* what a call ends with: a response or a raised exception
Outcome(response, error) == [response |-> response, error |-> error]

\* an absent probability of the primary is filled from the secondary, then the tertiary
BuildAuroraResponse_PatchedProbability(results) ==
    LET slots == PromoteAurora(results)
        fallback == IF slots.secondary # None /\ Val(slots.secondary).probability # None
                    THEN Val(slots.secondary).probability
                    ELSE IF slots.tertiary # None THEN Val(slots.tertiary).probability ELSE None
    IN
    IF slots.primary = None
    THEN Outcome(None, Some("All aurora data sources failed"))
    ELSE Outcome(Some([primary |-> IF Val(slots.primary).probability = None
                                   THEN [Val(slots.primary) EXCEPT !.probability = fallback]
                                   ELSE Val(slots.primary),
                       secondary |-> slots.secondary,
                       tertiary |-> slots.tertiary]), None)
\* fetch_aurora_data, lines 79-97
BuildAuroraResponse(results) ==
    LET slots == PromoteAurora(results) IN
    IF slots.primary = None
    THEN Outcome(None, Some("All aurora data sources failed"))
    ELSE Outcome(Some([primary |-> Val(slots.primary), secondary |-> slots.secondary,
                       tertiary |-> slots.tertiary]), None)

\* fetch_weather_data, lines 144-181
BuildWeatherResponse(results) ==
    LET slots == PromoteWeather(results) IN
    IF slots.primary = None
    THEN Outcome(None, Some("All weather data sources failed"))
    ELSE Outcome(Some([primary |-> PatchVisibility(Val(slots.primary), slots.secondary, slots.tertiary),
                       secondary |-> slots.secondary,
                       tertiary |-> slots.tertiary]), None)

BuildResponse(d, results) ==
    IF d = "weather" THEN BuildWeatherResponse(results) ELSE BuildAuroraResponse(results)

(***************************************************************************)
(* The coroutines of fetch_aurora_data / fetch_weather_data.  A coroutine   *)
(* is suspended at its awaits: cache.get, client.fetch_data, cache.set.    *)
(* The code after the loop runs without an await, so it belongs to the     *)
(* step that ends the last iteration.                                      *)
(***************************************************************************)
\* what one loop iteration did, kept for the properties
LogEntry(hit, evicted, fetch_calls, answer, stored_ttl) ==
    [hit |-> hit, evicted |-> evicted, fetch_calls |-> fetch_calls, answer |-> answer,
     stored_ttl |-> stored_ttl]

IdleCall ==
    [pc |-> "idle", domain |-> "aurora", loc |-> "loc1", i |-> 0, results |-> <<>>,
     data |-> None, response |-> None, error |-> None, log |-> <<>>]

\* the loop stops at the first client that yielded a record
Advance_ShortCircuit(call, results, log) ==
    IF call.i < clients[call.domain] /\ results[Len(results)] = None
    THEN [call EXCEPT !.pc = "get", !.i = @ + 1, !.results = results, !.log = log, !.data = None]
    ELSE LET out == BuildResponse(call.domain, results) IN
         [call EXCEPT !.pc = IF out.error = None THEN "done" ELSE "failed",
                      !.results = results, !.log = log, !.data = None,
                      !.response = out.response, !.error = out.error]
\* the end of one loop iteration: the next client, or lines 79-97 / 144-181
Advance(call, results, log) ==
    IF call.i < clients[call.domain]
    THEN [call EXCEPT !.pc = "get", !.i = @ + 1, !.results = results, !.log = log, !.data = None]
    ELSE LET out == BuildResponse(call.domain, results) IN
         [call EXCEPT !.pc = IF out.error = None THEN "done" ELSE "failed",
                      !.results = results, !.log = log, !.data = None,
                      !.response = out.response, !.error = out.error]

\* a caller that is not inside any CacheService method
IdleOp ==
    [pc |-> "idle", op |-> "get", key |-> cache_key("aurora", source_name("aurora", 1), "loc1"),
     value |-> None, ttl_seconds |-> 0, result |-> None]

\* no pure function is being called
NoCall == [fn |-> "none"]

\* coroutines that use the cache directly
Callers == {"a", "b"}
\* nobody uses the cache directly
NoOps == [c \in {} |-> IdleOp]

Init ==
    /\ cache = [k \in Keys |-> None]
    /\ now = 0
    /\ ticks = 0
    /\ clients \in [Domains -> 1..MaxClients]
    /\ calls = [r \in Requests |-> IdleCall]
    /\ fetches = 0
    /\ lock = None
    /\ ops = NoOps
    /\ pure = NoCall

\* a request enters fetch_aurora_data(lat, lon) or fetch_weather_data(lat, lon): results = []
StartCall(r, d, loc) ==
    /\ calls[r].pc = "idle"
    /\ calls' = [calls EXCEPT ![r] = [IdleCall EXCEPT !.pc = "get", !.domain = d, !.loc = loc, !.i = 1]]
    /\ UNCHANGED <<lock, ops, pure, cache, now, ticks, clients, fetches>>

\* cached = await cache.get(cache_key); if cached: results.append(cached); continue
\* (a cached record is a pydantic model, which is truthy; only None is falsy)
GetCached(r) ==
    LET call == calls[r]
        key == cache_key(call.domain, source_name(call.domain, call.i), call.loc)
        got == CacheGet(cache, key, now)
    IN /\ call.pc = "get"
       /\ cache' = got.cache
       /\ calls' = [calls EXCEPT ![r] =
             IF got.value # None
             THEN Advance(call, Append(call.results, got.value),
                          Append(call.log, LogEntry(TRUE, FALSE, 0, None, None)))
             ELSE [call EXCEPT !.pc = "fetch",
                               !.log = Append(call.log, LogEntry(FALSE, cache[key] # None, 0, None, None))]]
       /\ UNCHANGED <<lock, ops, pure, now, ticks, clients, fetches>>

\* data = await client.fetch_data(lat, lon); results.append(data)
\* except Exception: results.append(None)
FetchData(r, answer) ==
    LET call == calls[r]
        data == fetch_data(call.domain, source_name(call.domain, call.i), answer)
        log == [call.log EXCEPT ![call.i].fetch_calls = @ + 1, ![call.i].answer = Some(answer)]
    IN /\ call.pc = "fetch"
       /\ answer \in Upstream(call.domain)
       /\ fetches < MaxFetches
       /\ fetches' = fetches + 1
       /\ calls' = [calls EXCEPT ![r] =
             IF data = FetchFailed
             THEN Advance(call, Append(call.results, None), log)
             ELSE [call EXCEPT !.pc = "set", !.data = Some(data),
                               !.results = Append(call.results, Some(data)), !.log = log]]
       /\ UNCHANGED <<lock, ops, pure, cache, now, ticks, clients>>

\* await cache.set(cache_key, data, settings.cache_ttl_...)
SetCached(r) ==
    LET call == calls[r]
        key == cache_key(call.domain, source_name(call.domain, call.i), call.loc)
        log == [call.log EXCEPT ![call.i].stored_ttl = Some(cache_ttl(call.domain))]
    IN /\ call.pc = "set"
       /\ cache' = CacheSet(cache, key, Val(call.data), cache_ttl(call.domain), now)
       /\ calls' = [calls EXCEPT ![r] = Advance(call, call.results, log)]
       /\ UNCHANGED <<lock, ops, pure, now, ticks, clients, fetches>>

\* the caller takes the response or the exception; the request is over
Return(r) ==
    /\ calls[r].pc \in {"done", "failed"}
    /\ calls' = [calls EXCEPT ![r] = IdleCall]
    /\ UNCHANGED <<lock, ops, pure, cache, now, ticks, clients, fetches>>

\* the clock advances
Tick(delta) ==
    /\ ticks < MaxTicks
    /\ ticks' = ticks + 1
    /\ now' = now + delta
    /\ UNCHANGED <<lock, ops, pure, cache, clients, calls, fetches>>

Next ==
    \/ \E r \in Requests, d \in Domains, loc \in Locations : StartCall(r, d, loc)
    \/ \E r \in Requests : GetCached(r)
    \/ \E r \in Requests : \E answer \in UpstreamWeather \cup UpstreamAurora : FetchData(r, answer)
    \/ \E r \in Requests : SetCached(r)
    \/ \E r \in Requests : Return(r)
    \/ \E delta \in TickSteps : Tick(delta)

Spec == Init /\ [][Next]_vars

(***************************************************************************)
(* Properties.                                                             *)
(***************************************************************************)
\* the coroutine has returned a response or raised
Finished(call) == call.pc \in {"done", "failed"}

\* every source of the call was a cache miss
ColdCall(call) == \A i \in 1..Len(call.log) : ~call.log[i].hit

\* what the i-th client's fetch_data returned or raised in this call
Fetched(call, i) ==
    fetch_data(call.domain, source_name(call.domain, i), Val(call.log[i].answer))

\* the i-th client yielded no record / a record in this call
SourceFailed(call, i) == ~call.log[i].hit /\ Fetched(call, i) = FetchFailed
SourceOk(call, i) == ~call.log[i].hit /\ Fetched(call, i) # FetchFailed

\* C1: a finished aggregator call has raised "all sources failed" exactly
\* when no configured client yielded a record (cache entry or successful
\* fetch); otherwise it returned a response, whose primary is present.
C1_FailsIffEverySourceFails ==
    \A r \in Requests :
        LET call == calls[r] IN
        Finished(call) =>
            /\ (call.pc = "failed") <=> (\A i \in 1..Len(call.results) : call.results[i] = None)
            /\ (call.pc = "failed") <=> (call.response = None)
            /\ (call.pc = "failed") => call.error \in {Some("All aurora data sources failed"),
                                                       Some("All weather data sources failed")}

\* C2: with three configured clients and a cold cache, when the first
\* client fails and the second and third succeed, the call returns
\* primary = the second client's record, secondary = the third client's
\* record, tertiary absent (either domain).
C2_SecondPromotedThirdShifts ==
    \A r \in Requests :
        LET call == calls[r] IN
        (/\ Finished(call) /\ clients[call.domain] = 3 /\ ColdCall(call)
         /\ SourceFailed(call, 1) /\ SourceOk(call, 2) /\ SourceOk(call, 3))
        => /\ call.pc = "done"
           /\ Val(call.response).primary = Fetched(call, 2)
           /\ Val(call.response).secondary = Some(Fetched(call, 3))
           /\ Val(call.response).tertiary = None

C2_Witness ==
    \E r \in Requests :
        LET call == calls[r] IN
        /\ call.pc = "done" /\ call.domain = "aurora" /\ clients["aurora"] = 3 /\ ColdCall(call)
        /\ SourceFailed(call, 1) /\ SourceOk(call, 2) /\ SourceOk(call, 3)
        /\ Val(call.response).primary.source = "auroras_live"

Present(call) == SelectSeq(call.results, LAMBDA x : x # None)

\* C4 (as stated): in every successful result the present slots are
\* compacted in priority order: primary, secondary, tertiary are the first,
\* second and third sources that yielded a record; no absent slot precedes
\* a present one.
C4_SlotsCompacted ==
    \A r \in Requests :
        LET call == calls[r]
            resp == Val(call.response)
        IN call.pc = "done" =>
              /\ Some(resp.primary) = ResultAt(Present(call), 1)
              /\ resp.secondary = ResultAt(Present(call), 2)
              /\ resp.tertiary = ResultAt(Present(call), 3)
              /\ ~(resp.secondary = None /\ resp.tertiary # None)

\* C4 (amended): in every successful result primary is the first of the
\* first three sources, in priority order, that yielded a record.  The
\* other slots move up only when the first source failed: if the first
\* source yielded, secondary and tertiary are the second and third sources'
\* slots as they are (secondary may be absent while tertiary is present);
\* if the first failed and the second yielded, secondary is the third
\* source's slot and tertiary is absent; if only the third yielded, it is
\* primary and both other slots are absent.
C4_PromotionWithoutCompaction ==
    \A r \in Requests :
        LET call == calls[r]
            resp == Val(call.response)
            r1 == ResultAt(call.results, 1)
            r2 == ResultAt(call.results, 2)
            r3 == ResultAt(call.results, 3)
        IN call.pc = "done" =>
              /\ r1 # None => resp = [primary |-> Val(r1), secondary |-> r2, tertiary |-> r3]
              /\ (r1 = None /\ r2 # None) =>
                     resp = [primary |-> Val(r2), secondary |-> r3, tertiary |-> None]
              /\ (r1 = None /\ r2 = None) =>
                     /\ r3 # None
                     /\ resp = [primary |-> Val(r3), secondary |-> None, tertiary |-> None]

C4_Witness ==
    \E r \in Requests :
        LET call == calls[r] IN
        /\ call.pc = "done" /\ Len(call.results) = 3
        /\ call.results[1] # None /\ call.results[2] = None /\ call.results[3] # None
        /\ Val(call.response).primary = Val(call.results[1])
        /\ Val(call.response).secondary = None
        /\ Val(call.response).tertiary = call.results[3]

(***************************************************************************)
(* The weather record as the data model of the specification has it:       *)
(* cloud cover and precipitation required, visibility optional.            *)
(***************************************************************************)
\* the upstream answered with measurements whose required fields are valid
Answered(call, i) ==
    /\ ~call.log[i].hit
    /\ call.log[i].answer # None
    /\ Val(call.log[i].answer) # HTTPError
    /\ Val(call.log[i].answer).cloud_cover \in 0..100
    /\ Val(call.log[i].answer).precipitation_mm >= 0

\* the slot the i-th weather source offers: absent, or its measurements as a record
Offered(call, i) ==
    LET a == Val(call.log[i].answer) IN
    IF Answered(call, i)
    THEN Some([source |-> source_name("weather", i), cloud_cover |-> a.cloud_cover,
               visibility_km |-> a.visibility_km, precipitation_mm |-> a.precipitation_mm,
               temperature_c |-> a.temperature_c, last_updated |-> a.time])
    ELSE None

\* the offered slots of a finished cold weather call, after promotion
OfferedSlots(call) == PromoteWeather([i \in 1..Len(call.log) |-> Offered(call, i)])

\* the visibility the patch should pick: the secondary's, else the tertiary's
FallbackVisibility(slots) ==
    IF slots.secondary # None /\ Val(slots.secondary).visibility_km # None
    THEN Val(slots.secondary).visibility_km
    ELSE IF slots.tertiary # None /\ Val(slots.tertiary).visibility_km # None
         THEN Val(slots.tertiary).visibility_km
         ELSE None

FinishedColdWeather(call) == Finished(call) /\ call.domain = "weather" /\ ColdCall(call)

\* C5: when the promoted primary offers no visibility and a fallback slot
\* has one, the result's primary is that source's record with the
\* visibility of the secondary if it has one, else of the tertiary.
C5_PatchedFromSecondaryThenTertiary ==
    \A r \in Requests :
        LET call == calls[r]
            slots == OfferedSlots(call)
        IN (/\ FinishedColdWeather(call)
            /\ slots.primary # None
            /\ Val(slots.primary).visibility_km = None
            /\ FallbackVisibility(slots) # None)
           => /\ call.pc = "done"
              /\ Val(call.response).primary.source = Val(slots.primary).source
              /\ Val(call.response).primary.visibility_km = FallbackVisibility(slots)

\* C6: the patch changes only the primary's visibility, and only when it
\* was absent: a promoted primary that has a visibility is returned as it
\* is; one without keeps its source name, cloud cover, precipitation,
\* temperature and timestamp.
C6_PatchChangesOnlyAbsentVisibility ==
    \A r \in Requests :
        LET call == calls[r]
            slots == OfferedSlots(call)
            promoted == Val(slots.primary)
            primary == Val(call.response).primary
        IN (FinishedColdWeather(call) /\ slots.primary # None)
           => /\ call.pc = "done"
              /\ promoted.visibility_km # None => primary = promoted
              /\ primary.source = promoted.source
              /\ primary.cloud_cover = promoted.cloud_cover
              /\ primary.precipitation_mm = promoted.precipitation_mm
              /\ primary.temperature_c = promoted.temperature_c
              /\ primary.last_updated = promoted.last_updated

\* C7: when all three weather sources offer a record without visibility,
\* aggregation succeeds and the result primary's visibility stays absent.
C7_AllAbsentStaysAbsent ==
    \A r \in Requests :
        LET call == calls[r] IN
        (/\ FinishedColdWeather(call) /\ clients["weather"] = 3
         /\ \A i \in 1..3 : Answered(call, i) /\ Val(Offered(call, i)).visibility_km = None)
        => /\ call.pc = "done"
           /\ Val(call.response).primary.source = "met_no"
           /\ Val(call.response).primary.visibility_km = None

\* C8: a weather record without visibility is a valid record: when the
\* upstream answers with valid cloud cover and precipitation and no
\* visibility, the client yields a record whose visibility is absent.
C8_RecordWithoutVisibilityIsValid ==
    \A r \in Requests :
        LET call == calls[r] IN
        \A i \in 1..Len(call.results) :
            (/\ call.domain = "weather" /\ Answered(call, i)
             /\ Val(call.log[i].answer).visibility_km = None)
            => /\ call.results[i] # None
               /\ Val(call.results[i]).visibility_km = None

\* the cache key of the source the call is at
CurrentKey(call) == cache_key(call.domain, source_name(call.domain, call.i), call.loc)

\* the request takes a step from the given await
StepsFrom(r, pc) == calls[r].pc = pc /\ calls'[r] # calls[r]

\* C9: per source the cache is consulted before the client.  An unexpired
\* entry under the (domain, source, lat, lon) key fills the slot and the
\* client is not called; otherwise the client is called exactly once and, on
\* success, its record is stored under that key with the domain's TTL
\* (aurora TTL for aurora keys, weather TTL for weather keys).
C9_Step(r) ==
    LET call == calls[r]
        after == calls'[r]
        key == CurrentKey(call)
        entry == cache[key]
    IN /\ StepsFrom(r, "get") =>
            IF entry # None /\ now <= Val(entry).expires_at
            THEN /\ after.results = Append(call.results, Some(Val(entry).value))
                 /\ after.pc # "fetch"
                 /\ after.log[call.i].hit
                 /\ after.log[call.i].fetch_calls = 0
                 /\ fetches' = fetches
            ELSE /\ after.pc = "fetch"
                 /\ after.i = call.i
                 /\ after.results = call.results
                 /\ fetches' = fetches
       /\ StepsFrom(r, "fetch") =>
            /\ fetches' = fetches + 1
            /\ after.log[call.i].fetch_calls = 1
            /\ after.pc # "fetch"
            /\ Len(after.results) = call.i
            /\ cache' = cache
            /\ (after.pc = "set") <=> (after.results[call.i] # None)
       /\ StepsFrom(r, "set") =>
            /\ cache' = [cache EXCEPT ![key] =
                   Some([value |-> Val(call.results[call.i]),
                         expires_at |-> now + (IF call.domain = "aurora"
                                               THEN cache_ttl_aurora
                                               ELSE cache_ttl_weather)])]
            /\ after.results = call.results
            /\ fetches' = fetches
       /\ \A i \in 1..Len(after.log) :
            /\ after.log[i].fetch_calls <= 1
            /\ after.log[i].hit => after.log[i].fetch_calls = 0

C9_CacheBeforeClient ==
    [][/\ \A r \in Requests : C9_Step(r)
       /\ fetches' # fetches => \E r \in Requests : calls[r].pc = "fetch"]_vars

C9_Witness ==
    \E r \in Requests :
        LET call == calls[r] IN
        \E i, j \in 1..Len(call.results) :
            /\ call.log[i].hit /\ call.log[i].fetch_calls = 0 /\ call.results[i] # None
            /\ ~call.log[j].hit /\ call.log[j].fetch_calls = 1
            /\ call.log[j].stored_ttl = Some(cache_ttl(call.domain))
            /\ cache[cache_key(call.domain, source_name(call.domain, j), call.loc)]
                   = Some([value |-> Val(call.results[j]),
                           expires_at |-> now + cache_ttl(call.domain)])

\* C10: get at time now of an entry with expiry E returns the stored value
\* when now <= E and leaves the entry and its expiry untouched; when
\* now > E it returns absent and removes the entry, and the key stays
\* absent (every get of it a miss) until the next set of that key.
C10_Step(r) ==
    LET call == calls[r]
        after == calls'[r]
        key == CurrentKey(call)
        entry == cache[key]
        miss == after.pc = "fetch" /\ after.results = call.results
    IN StepsFrom(r, "get") =>
          /\ (entry # None /\ now <= Val(entry).expires_at) =>
                /\ after.results = Append(call.results, Some(Val(entry).value))
                /\ cache' = cache
          /\ (entry # None /\ now > Val(entry).expires_at) =>
                /\ miss
                /\ cache' = [cache EXCEPT ![key] = None]
          /\ entry = None => (miss /\ cache' = cache)

C10_GetHonoursExpiry ==
    [][/\ \A r \in Requests : C10_Step(r)
       /\ \A k \in Keys : (cache[k] = None /\ cache'[k] # None) =>
              \E r \in Requests : calls[r].pc = "set" /\ CurrentKey(calls[r]) = k]_vars

C10_Witness ==
    \E r \in Requests :
        LET call == calls[r] IN
        \E i, j \in 1..Len(call.log) :
            /\ call.log[i].hit
            /\ cache[cache_key(call.domain, source_name(call.domain, i), call.loc)] # None
            /\ Val(cache[cache_key(call.domain, source_name(call.domain, i), call.loc)]).expires_at = now
            /\ call.log[j].evicted
            /\ call.pc = "fetch" /\ call.i = j
            /\ cache[cache_key(call.domain, source_name(call.domain, j), call.loc)] = None

(***************************************************************************)
(* services/cache_service.py under concurrent callers: every method body   *)
(* runs inside "async with self._lock".  A caller waits at the lock, runs  *)
(* the body while holding it, and leaves the block.                        *)
(***************************************************************************)
\* keys, values and TTLs the direct callers use
CacheKeys ==
    {cache_key("aurora", source_name("aurora", 1), "loc1"),
     cache_key("weather", source_name("weather", 1), "loc1")}
CacheValues == {"v1", "v2"}
TTLVals == {cache_ttl_aurora}
CacheMethods == {"get", "set", "delete", "clear", "cleanup_expired"}
CacheTickSteps == {cache_ttl_aurora}

\* CacheService.delete, run under the lock
CacheDelete(ch, key) == [ch EXCEPT ![key] = None]

\* CacheService.clear, run under the lock
CacheClear(ch) == [k \in DOMAIN ch |-> None]

\* CacheService.cleanup_expired, run under the lock
CacheCleanupExpired(ch, t) ==
    [k \in DOMAIN ch |-> IF ch[k] # None /\ t > Val(ch[k]).expires_at THEN None ELSE ch[k]]

\* mutant of CanAcquire: the method bodies are not guarded by the lock
CanAcquire_Always(l) == TRUE

\* asyncio.Lock: "async with self._lock" proceeds only while nobody holds the lock
CanAcquire(l) == l = None

InitCache ==
    /\ cache = [k \in CacheKeys |-> None]
    /\ now = 0
    /\ ticks = 0
    /\ clients = [d \in Domains |-> 1]
    /\ calls = [r \in Requests |-> IdleCall]
    /\ fetches = 0
    /\ lock = None
    /\ ops = [c \in Callers |-> IdleOp]
    /\ pure = NoCall

\* a caller awaits one of the methods and reaches its "async with self._lock"
CallCache(c, op, key, value, ttl_seconds) ==
    /\ ops[c].pc \in {"idle", "returned"}
    /\ ops' = [ops EXCEPT ![c] = [pc |-> "acquire", op |-> op, key |-> key, value |-> value,
                                   ttl_seconds |-> ttl_seconds, result |-> None]]
    /\ UNCHANGED <<cache, now, ticks, clients, calls, fetches, lock, pure>>

\* entering the "async with" block
AcquireLock(c) ==
    /\ ops[c].pc = "acquire"
    /\ CanAcquire(lock)
    /\ lock' = Some(c)
    /\ ops' = [ops EXCEPT ![c].pc = "locked"]
    /\ UNCHANGED <<cache, now, ticks, clients, calls, fetches, pure>>

\* the body of get
Get(c) ==
    /\ ops[c].pc = "locked" /\ ops[c].op = "get"
    /\ LET got == CacheGet(cache, ops[c].key, now) IN
       /\ cache' = got.cache
       /\ ops' = [ops EXCEPT ![c].pc = "release", ![c].result = got.value]
    /\ UNCHANGED <<now, ticks, clients, calls, fetches, lock, pure>>

\* the body of set
Set(c) ==
    /\ ops[c].pc = "locked" /\ ops[c].op = "set"
    /\ cache' = CacheSet(cache, ops[c].key, Val(ops[c].value), ops[c].ttl_seconds, now)
    /\ ops' = [ops EXCEPT ![c].pc = "release"]
    /\ UNCHANGED <<now, ticks, clients, calls, fetches, lock, pure>>

\* the body of delete
Delete(c) ==
    /\ ops[c].pc = "locked" /\ ops[c].op = "delete"
    /\ cache' = CacheDelete(cache, ops[c].key)
    /\ ops' = [ops EXCEPT ![c].pc = "release"]
    /\ UNCHANGED <<now, ticks, clients, calls, fetches, lock, pure>>

\* the body of clear
Clear(c) ==
    /\ ops[c].pc = "locked" /\ ops[c].op = "clear"
    /\ cache' = CacheClear(cache)
    /\ ops' = [ops EXCEPT ![c].pc = "release"]
    /\ UNCHANGED <<now, ticks, clients, calls, fetches, lock, pure>>

\* the body of cleanup_expired
CleanupExpired(c) ==
    /\ ops[c].pc = "locked" /\ ops[c].op = "cleanup_expired"
    /\ cache' = CacheCleanupExpired(cache, now)
    /\ ops' = [ops EXCEPT ![c].pc = "release"]
    /\ UNCHANGED <<now, ticks, clients, calls, fetches, lock, pure>>

\* leaving the "async with" block: the lock is released and the method returns
ReleaseLock(c) ==
    /\ ops[c].pc = "release"
    /\ lock' = None
    /\ ops' = [ops EXCEPT ![c].pc = "returned"]
    /\ UNCHANGED <<cache, now, ticks, clients, calls, fetches, pure>>

\* the clock advances while the callers are suspended or running
CacheTick(delta) ==
    /\ ticks < MaxTicks
    /\ now' = now + delta
    /\ ticks' = ticks + 1
    /\ UNCHANGED <<cache, clients, calls, fetches, lock, ops, pure>>

NextCache ==
    \/ \E c \in Callers, key \in CacheKeys : CallCache(c, "get", key, None, 0)
    \/ \E c \in Callers, key \in CacheKeys, value \in CacheValues, ttl_seconds \in TTLVals :
           CallCache(c, "set", key, Some(value), ttl_seconds)
    \/ \E c \in Callers, key \in CacheKeys : CallCache(c, "delete", key, None, 0)
    \/ \E c \in Callers : CallCache(c, "clear", IdleOp.key, None, 0)
    \/ \E c \in Callers : CallCache(c, "cleanup_expired", IdleOp.key, None, 0)
    \/ \E c \in Callers : AcquireLock(c)
    \/ \E c \in Callers : Get(c)
    \/ \E c \in Callers : Set(c)
    \/ \E c \in Callers : Delete(c)
    \/ \E c \in Callers : Clear(c)
    \/ \E c \in Callers : CleanupExpired(c)
    \/ \E c \in Callers : ReleaseLock(c)
    \/ \E delta \in CacheTickSteps : CacheTick(delta)

SpecCache == InitCache /\ [][NextCache]_vars

\* caller c runs the body of method op in this step
RunsBody(c, op) == ops[c].pc = "locked" /\ ops[c].op = op /\ ops'[c].pc = "release"

\* callers that are inside an "async with self._lock" block
InCriticalSection(o) == {c \in Callers : o[c].pc \in {"locked", "release"}}

(***************************************************************************)
(* C11: set always overwrites.  After set(k, v, ttl) at time t the entry   *)
(* for k holds v with expiry t + ttl, whatever entry k had before, and no  *)
(* other key's entry is changed.                                           *)
(***************************************************************************)
C11_Step(c) ==
    RunsBody(c, "set") =>
        /\ cache'[ops[c].key] = Some([value |-> Val(ops[c].value),
                                      expires_at |-> now + ops[c].ttl_seconds])
        /\ \A k \in CacheKeys \ {ops[c].key} : cache'[k] = cache[k]

C11_SetOverwrites == [][\A c \in Callers : C11_Step(c)]_vars

\* a set has just replaced the entry an earlier set wrote for the same key
\* at an earlier time, with another value
C11_Witness ==
    \E c, d \in Callers :
        /\ c # d
        /\ ops[c].pc = "returned" /\ ops[c].op = "set"
        /\ ops[d].pc = "release" /\ ops[d].op = "set"
        /\ ops[c].key = ops[d].key /\ ops[c].value # ops[d].value
        /\ now > 0
        /\ cache[ops[d].key] = Some([value |-> Val(ops[d].value),
                                     expires_at |-> now + ops[d].ttl_seconds])

(***************************************************************************)
(* C12: every cache method runs under exclusive access.  At most one       *)
(* caller is inside the critical section at any time; the dictionary only  *)
(* changes in the body step of the caller holding the lock, by the whole   *)
(* effect of that one method; an entry is written whole by one set, and a  *)
(* get returns absent or the value of such an entry.                       *)
(***************************************************************************)
C12_Effect(c) ==
    LET key == ops[c].key
        others == \A k \in CacheKeys \ {key} : cache'[k] = cache[k]
    IN  /\ RunsBody(c, "get") =>
            /\ others
            /\ cache'[key] \in {cache[key], None}
            /\ ops'[c].result # None =>
                   /\ cache[key] # None /\ cache'[key] = cache[key]
                   /\ Val(ops'[c].result) = Val(cache[key]).value
        /\ RunsBody(c, "set") =>
            /\ others
            /\ cache'[key] = Some([value |-> Val(ops[c].value),
                                   expires_at |-> now + ops[c].ttl_seconds])
        /\ RunsBody(c, "delete") => others /\ cache'[key] = None
        /\ RunsBody(c, "clear") => \A k \in CacheKeys : cache'[k] = None
        /\ RunsBody(c, "cleanup_expired") => \A k \in CacheKeys : cache'[k] \in {cache[k], None}

C12_Step ==
    /\ Cardinality(InCriticalSection(ops)) <= 1
    /\ Cardinality(InCriticalSection(ops')) <= 1
    /\ \A c \in InCriticalSection(ops) : lock = Some(c)
    /\ cache' # cache =>
           \E c \in Callers : lock = Some(c) /\ (\E op \in CacheMethods : RunsBody(c, op))
    /\ \A c \in Callers : C12_Effect(c)

C12_ExclusiveAccess == [][C12_Step]_vars

\* one caller is inside the critical section while the other waits at the lock
C12_Witness ==
    \E c, d \in Callers :
        /\ c # d
        /\ lock = Some(c) /\ ops[c].pc = "locked" /\ ops[c].op = "set"
        /\ ops[d].pc = "acquire" /\ ops[d].op = "get" /\ ops[d].key = ops[c].key

(***************************************************************************)
(* Two requests run fetch_aurora_data / fetch_weather_data concurrently    *)
(* on the aggregator as it is constructed: two aurora clients and three    *)
(* weather clients.  The coroutines interleave at their awaits.            *)
(***************************************************************************)
RaceRequests == {"r1", "r2"}

\* DataAggregator.__init__: the configured client lists
ConfiguredClients == [aurora |-> 2, weather |-> 3]
\* clock advances between the concurrent steps: long enough to expire any entry
RaceTickSteps == {cache_ttl_weather}

InitRace ==
    /\ cache = [k \in Keys |-> None]
    /\ now = 0
    /\ ticks = 0
    /\ clients = ConfiguredClients
    /\ calls = [r \in RaceRequests |-> IdleCall]
    /\ fetches = 0
    /\ lock = None
    /\ ops = NoOps
    /\ pure = NoCall

NextRace ==
    \/ \E r \in RaceRequests, d \in Domains, loc \in Locations : StartCall(r, d, loc)
    \/ \E r \in RaceRequests : GetCached(r)
    \/ \E r \in RaceRequests : \E answer \in UpstreamWeather \cup UpstreamAurora : FetchData(r, answer)
    \/ \E r \in RaceRequests : SetCached(r)
    \/ \E r \in RaceRequests : Return(r)
    \/ \E delta \in RaceTickSteps : Tick(delta)

SpecRace == InitRace /\ [][NextRace]_vars

\* the sources whose records fill the slots of a finished call's response
SlotSources(call) ==
    IF call.response = None THEN None
    ELSE LET resp == Val(call.response)
             name(x) == IF x = None THEN None ELSE Some(Val(x).source)
         IN Some([primary |-> resp.primary.source, secondary |-> name(resp.secondary),
                  tertiary |-> name(resp.tertiary)])

\* which of the consulted sources yielded a record
Yielded(call) == {i \in 1..Len(call.results) : call.results[i] # None}

\* a call that missed the cache for its first source and got a record from the client
MissedAndFetched(call) ==
    /\ Len(call.log) >= 1 /\ Len(call.results) >= 1
    /\ ~call.log[1].hit /\ call.log[1].fetch_calls = 1
    /\ call.results[1] # None

(***************************************************************************)
(* C13: fetching is at-least-once.  Two concurrent calls for the same key  *)
(* can both miss and both fetch; every slot a call fills holds a record    *)
(* of the source consulted at that position, and every set leaves the      *)
(* key's single entry holding the record of the call that set last, with   *)
(* the expiry of that set, and leaves the other keys alone.                *)
(***************************************************************************)
C13_Step(r) ==
    LET call == calls[r]
        key == CurrentKey(call)
    IN /\ StepsFrom(r, "set") =>
            /\ cache'[key] = Some([value |-> Val(call.results[call.i]),
                                   expires_at |-> now + cache_ttl(call.domain)])
            /\ \A k \in Keys \ {key} : cache'[k] = cache[k]
       /\ \A i \in 1..Len(calls'[r].results) :
            calls'[r].results[i] # None =>
                Val(calls'[r].results[i]).source = source_name(calls'[r].domain, i)

C13_AtLeastOnceLastSetWins == [][\A r \in RaceRequests : C13_Step(r)]_vars

\* both calls missed the same key on a cold cache, both fetched, the two
\* clients' records differ, and the key's entry holds one of them
C13_Witness ==
    LET c1 == calls["r1"]
        c2 == calls["r2"]
        key == cache_key(c1.domain, source_name(c1.domain, 1), c1.loc)
    IN /\ c1.domain = c2.domain /\ c1.loc = c2.loc
       /\ MissedAndFetched(c1) /\ MissedAndFetched(c2)
       /\ ~c1.log[1].evicted /\ ~c2.log[1].evicted
       /\ c1.log[1].stored_ttl # None /\ c2.log[1].stored_ttl # None
       /\ c1.results[1] # c2.results[1]
       /\ fetches = 2
       /\ cache[key] # None
       /\ Val(cache[key]).value \in {Val(c1.results[1]), Val(c2.results[1])}

(***************************************************************************)
(* C14: within one call the sources are consulted in the configured        *)
(* priority order, and the assignment of sources to primary / secondary /  *)
(* tertiary depends only on which sources yielded a record: two finished   *)
(* calls of one domain with the same yielding sources have the same        *)
(* assignment, whatever records, cache hits and interleaving they saw.     *)
(***************************************************************************)
C14_Step ==
    /\ \A r \in RaceRequests :
          /\ calls'[r].i # calls[r].i => (calls'[r].i = calls[r].i + 1 \/ calls'[r].pc = "idle")
          /\ Len(calls'[r].results) \in {calls'[r].i - 1, calls'[r].i}
          /\ \A i \in 1..Len(calls'[r].results) :
                calls'[r].results[i] # None =>
                    Val(calls'[r].results[i]).source = source_name(calls'[r].domain, i)
    /\ \A r, s \in RaceRequests :
          (/\ Finished(calls'[r]) /\ Finished(calls'[s])
           /\ calls'[r].domain = calls'[s].domain
           /\ Yielded(calls'[r]) = Yielded(calls'[s]))
          => SlotSources(calls'[r]) = SlotSources(calls'[s])

C14_SlotsDependOnYieldingSourcesOnly == [][C14_Step]_vars

\* two finished aurora calls in which both sources yielded: one fetched both
\* records, the other took the second from the cache, the records they hold
\* for the first source differ, and the slot assignment is the same
C14_Witness ==
    LET c1 == calls["r1"]
        c2 == calls["r2"]
    IN /\ c1.pc = "done" /\ c2.pc = "done"
       /\ c1.domain = "aurora" /\ c2.domain = "aurora"
       /\ Yielded(c1) = {1, 2} /\ Yielded(c2) = {1, 2}
       /\ ColdCall(c1) /\ c2.log[2].hit
       /\ Val(c1.results[1]).probability = None
       /\ Val(c2.results[1]).probability # None
       /\ SlotSources(c1) = SlotSources(c2)
       /\ Val(SlotSources(c1)).primary = source_name("aurora", 1)

(***************************************************************************)
(* services/correlation.py, utils/sun.py, utils/moon.py,                   *)
(* models/prediction.py: the visibility score.                             *)
(*                                                                         *)
(* Python floats are modelled exactly.  Latitudes, sun elevations, cloud   *)
(* cover and the kp index are whole numbers; precipitation, penalties and  *)
(* scores are counted in tenths (Tenths(1) is 1.0); the aurora sub-score   *)
(* before rounding is a fraction num / den.                                *)
(***************************************************************************)
Tenths(x) == 10 * x
Frac(num, den) == [num |-> num, den |-> den]
Abs(x) == IF x < 0 THEN -x ELSE x
Max(a, b) == IF a > b THEN a ELSE b
Min(a, b) == IF a < b THEN a ELSE b

\* round(x, 1) for x = num / (10 * den), in tenths.  A value half way
\* between two tenths goes to the even tenth when the float holds it exactly
\* (a multiple of 0.25); otherwise the float is only near the half-way point
\* and either neighbour can come out.
round1(num, den) ==
    LET up == (2 * num + den) \div (2 * den)
        halfway == (2 * num + den) % (2 * den) = 0
    IN IF ~halfway THEN {up}
       ELSE IF (4 * num) % (10 * den) = 0
            THEN {IF up % 2 = 0 THEN up ELSE up - 1}
            ELSE {up - 1, up}

\* f"{min_kp:.1f}" for min_kp = thirds / 3, in tenths (never half way)
format_1f(thirds) == (20 * thirds + 3) \div 6

\* _min_kp_for_lat(lat), in thirds of a kp unit: max(0.0, (65.0 - abs(lat)) / 3.0)
min_kp_for_lat(lat) == Max(0, 65 - Abs(lat))

\* kp < min_kp, for a whole kp and min_kp in thirds
kp_below(kp, min_kp) == 3 * kp < min_kp

\* correlation.py lines 42-49: the aurora sub-score, a fraction of points
aurora_score(kp, lat) ==
    LET min_kp == min_kp_for_lat(lat)
        raw == IF kp_below(kp, min_kp)
               THEN Frac(30 * kp, Max(min_kp, 3))
               ELSE LET den == Max(27 - min_kp, 3)
                    IN Frac(10 * den + 30 * (3 * kp - min_kp), den)
    IN IF raw.num < 0 THEN Frac(0, 1)
       ELSE IF raw.num > 40 * raw.den THEN Frac(40, 1)
       ELSE raw

\* lines 53-61
cloud_score(cloud_pct) ==
    IF cloud_pct < 25 THEN 30
    ELSE IF cloud_pct < 50 THEN 20
    ELSE IF cloud_pct < 75 THEN 10
    ELSE 0

\* lines 67-75
vis_score(visibility_km) ==
    LET vis_km == IF visibility_km # None THEN Val(visibility_km) ELSE 15
    IN IF vis_km > 20 THEN 20
       ELSE IF vis_km > 10 THEN 15
       ELSE IF vis_km > 5 THEN 10
       ELSE 5

\* lines 78-84, the precipitation in tenths of a millimetre
precip_score(precip) ==
    IF precip = 0 THEN 10
    ELSE IF precip < Tenths(1) THEN 5
    ELSE 0

\* utils/moon.py line 51: min(15.0, round(moon_factor * 15.0, 1)), the moon
\* factor (illumination times the sine of the elevation, 0 below the
\* horizon) in hundredths
calculate_moon_penalty(moon_factor) ==
    Min(Tenths(15), CHOOSE t \in round1(moon_factor * 15, 10) : TRUE)

\* utils/sun.py lines 43-57
calculate_sun_penalty(elevation_deg) ==
    IF elevation_deg >= 0
    THEN [elevation_deg |-> elevation_deg, twilight_phase |-> "daylight", penalty_pts |-> Tenths(50)]
    ELSE IF elevation_deg >= -6
    THEN [elevation_deg |-> elevation_deg, twilight_phase |-> "civil_twilight", penalty_pts |-> Tenths(40)]
    ELSE IF elevation_deg >= -12
    THEN [elevation_deg |-> elevation_deg, twilight_phase |-> "nautical_twilight", penalty_pts |-> Tenths(20)]
    ELSE IF elevation_deg >= -18
    THEN [elevation_deg |-> elevation_deg, twilight_phase |-> "astronomical_twilight", penalty_pts |-> Tenths(8)]
    ELSE [elevation_deg |-> elevation_deg, twilight_phase |-> "darkness", penalty_pts |-> 0]

\* what round(...) at lines 93-101 can return, in tenths
rounded_sum(aurora, clouds, visibility, precipitation, moon_pts, sun_pts) ==
    round1(10 * aurora.num
             + aurora.den * (Tenths(clouds + visibility + precipitation) - moon_pts - sun_pts),
           aurora.den)

\* mutant of total_score: the result of round() is not floored at zero
total_score_NoFloor(aurora, clouds, visibility, precipitation, moon_pts, sun_pts) ==
    rounded_sum(aurora, clouds, visibility, precipitation, moon_pts, sun_pts)

\* mutant of total_score: the moon penalty is added instead of deducted
total_score_MoonAdded(aurora, clouds, visibility, precipitation, moon_pts, sun_pts) ==
    {Max(0, t) : t \in rounded_sum(aurora, clouds, visibility, precipitation, -moon_pts, sun_pts)}

\* lines 91-102: the values total_score can take, in tenths
total_score(aurora, clouds, visibility, precipitation, moon_pts, sun_pts) ==
    {Max(0, t) : t \in rounded_sum(aurora, clouds, visibility, precipitation, moon_pts, sun_pts)}

\* a recommendation: the text of the f-string and the number formatted into it
Message(text, min_kp) == [text |-> text, min_kp |-> min_kp]

TooLowExcellentWeather ==
    "Weather conditions are excellent, but aurora activity is too low for your current location (KP < {min_kp:.1f}). Not worth going outside yet - wait for stronger activity."
TooLowAnyWeather ==
    "Aurora activity too low for your current location (KP < {min_kp:.1f}). Aurora viewing not possible regardless of weather."
TooLowBadWeather ==
    "Aurora activity too low (KP < {min_kp:.1f}) and weather conditions unfavorable. Aurora viewing not possible."
ExcellentConditions ==
    "Excellent conditions! Aurora is active (KP >= {min_kp:.1f}) and weather is clear. Great chance to see aurora - get outside!"
GoodActivityModerateCloud ==
    "Good aurora activity (KP >= {min_kp:.1f}), but moderate cloud cover may reduce visibility. Worth checking outside if clouds break."
GoodConditions ==
    "Good conditions! Aurora is active (KP >= {min_kp:.1f}) and weather is favorable. Worth checking outside."
ActiveHeavyCloud ==
    "Aurora is active (KP >= {min_kp:.1f}), but heavy cloud cover will likely block visibility. Not recommended unless skies clear."
FairConditions ==
    "Fair conditions. Aurora is active (KP >= {min_kp:.1f}) but conditions are marginal. May be visible in dark areas."
ActivePoorWeather ==
    "Aurora is active (KP >= {min_kp:.1f}), but weather conditions are poor. Aurora viewing not recommended."
VeryPoorConditions == "Very poor conditions. Aurora viewing not recommended."
DaylightMessage == "It is currently daylight. Aurora borealis is not visible during the day."
CivilTwilightMessage ==
    "Civil twilight - the sky is too bright for aurora viewing. Wait until full darkness."

\* mutant of get_recommendation: a kp equal to the threshold counts as too low
get_recommendation_TooLowAtThreshold(score, kp_index, cloud_cover, lat) ==
    LET min_kp == min_kp_for_lat(lat)
        shown == Some(format_1f(min_kp))
    IN IF 3 * kp_index <= min_kp
       THEN IF score >= Tenths(60) THEN Message(TooLowExcellentWeather, shown)
            ELSE IF score >= Tenths(40) THEN Message(TooLowAnyWeather, shown)
            ELSE Message(TooLowBadWeather, shown)
       ELSE IF score >= Tenths(80) THEN Message(ExcellentConditions, shown)
       ELSE IF score >= Tenths(60)
            THEN IF cloud_cover > 50 THEN Message(GoodActivityModerateCloud, shown)
                 ELSE Message(GoodConditions, shown)
       ELSE IF score >= Tenths(40)
            THEN IF cloud_cover > 75 THEN Message(ActiveHeavyCloud, shown)
                 ELSE Message(FairConditions, shown)
       ELSE IF score >= Tenths(20) THEN Message(ActivePoorWeather, shown)
       ELSE Message(VeryPoorConditions, None)

\* get_recommendation(score, kp_index, cloud_cover, lat), lines 133-174; the score in tenths
get_recommendation(score, kp_index, cloud_cover, lat) ==
    LET min_kp == min_kp_for_lat(lat)
        shown == Some(format_1f(min_kp))
    IN IF kp_below(kp_index, min_kp)
       THEN IF score >= Tenths(60) THEN Message(TooLowExcellentWeather, shown)
            ELSE IF score >= Tenths(40) THEN Message(TooLowAnyWeather, shown)
            ELSE Message(TooLowBadWeather, shown)
       ELSE IF score >= Tenths(80) THEN Message(ExcellentConditions, shown)
       ELSE IF score >= Tenths(60)
            THEN IF cloud_cover > 50 THEN Message(GoodActivityModerateCloud, shown)
                 ELSE Message(GoodConditions, shown)
       ELSE IF score >= Tenths(40)
            THEN IF cloud_cover > 75 THEN Message(ActiveHeavyCloud, shown)
                 ELSE Message(FairConditions, shown)
       ELSE IF score >= Tenths(20) THEN Message(ActivePoorWeather, shown)
       ELSE Message(VeryPoorConditions, None)

\* mutant of override_recommendation: civil twilight is not overridden
override_recommendation_DaylightOnly(recommendation, twilight_phase) ==
    IF twilight_phase = "daylight" THEN Message(DaylightMessage, None)
    ELSE recommendation

\* lines 106-109: the recommendation after the daylight / civil twilight override
override_recommendation(recommendation, twilight_phase) ==
    IF twilight_phase = "daylight" THEN Message(DaylightMessage, None)
    ELSE IF twilight_phase = "civil_twilight" THEN Message(CivilTwilightMessage, None)
    ELSE recommendation

\* models/prediction.py: the validated response models, scores in tenths
MoonData(penalty_pts) ==
    IF penalty_pts >= 0 /\ penalty_pts <= Tenths(15)
    THEN [penalty_pts |-> penalty_pts] ELSE ValidationError

SunData(elevation_deg, twilight_phase, penalty_pts) ==
    IF penalty_pts >= 0 /\ penalty_pts <= Tenths(50)
    THEN [elevation_deg |-> elevation_deg, twilight_phase |-> twilight_phase,
          penalty_pts |-> penalty_pts]
    ELSE ValidationError

VisibilityBreakdown(aurora, clouds, visibility, precipitation, moon, sun) ==
    IF /\ aurora >= 0 /\ aurora <= Tenths(40)
       /\ clouds >= 0 /\ clouds <= Tenths(30)
       /\ visibility >= 0 /\ visibility <= Tenths(20)
       /\ precipitation >= 0 /\ precipitation <= Tenths(10)
       /\ moon # ValidationError /\ sun # ValidationError
    THEN [aurora |-> aurora, clouds |-> clouds, visibility |-> visibility,
          precipitation |-> precipitation, moon |-> moon, sun |-> sun]
    ELSE ValidationError

VisibilityScore(total, breakdown, recommendation) ==
    IF total >= 0 /\ total <= Tenths(100) /\ breakdown # ValidationError
    THEN [total_score |-> total, breakdown |-> breakdown, recommendation |-> recommendation]
    ELSE ValidationError

\* calculate_visibility_score(aurora, weather, lat, lon): every value the call
\* can return, given what the moon and sun calculators report
calculate_visibility_score(aurora, weather, lat, moon_factor, sun_elevation) ==
    LET kp == aurora.kp_index
        a == aurora_score(kp, lat)
        c == cloud_score(weather.cloud_cover)
        v == vis_score(weather.visibility_km)
        p == precip_score(weather.precipitation_mm)
        moon_pts == calculate_moon_penalty(moon_factor)
        sun_data == calculate_sun_penalty(sun_elevation)
    IN { VisibilityScore(
            total,
            VisibilityBreakdown(shown_aurora, Tenths(c), Tenths(v), Tenths(p),
                                MoonData(moon_pts),
                                SunData(sun_data.elevation_deg, sun_data.twilight_phase,
                                        sun_data.penalty_pts)),
            override_recommendation(get_recommendation(total, kp, weather.cloud_cover, lat),
                                    sun_data.twilight_phase))
         : total \in total_score(a, c, v, p, moon_pts, sun_data.penalty_pts),
           shown_aurora \in round1(10 * a.num, a.den) }

\* the inputs of the scoring calls
KpIndexVals == {0, 1, 3, 5, 9}
LatDegs == {-70, 0, 41, 56, 65}
CloudPcts == {0, 25, 50, 51, 76, 100}
VisKms == {None, Some(1), Some(5), Some(6), Some(11), Some(20), Some(21)}
PrecipTenths == {0, 5, 10, 30}
MoonFactors == {0, 50, 100}
SunElevations == {35, 0, -6, -12, -18, -30}
ScoreTenths == {0, 199, 200, 399, 400, 599, 600, 799, 800, 1000}

\* a test or the prediction route builds the two records and calls the scoring
ScoreCalls ==
    { [fn |-> "calculate_visibility_score",
       given |-> [kp_index |-> kp, cloud_cover |-> cloud, visibility_km |-> vis,
                  precipitation_mm |-> precip],
       aurora |-> AuroraData("test", kp, None, 0),
       weather |-> WeatherData("test", cloud, vis, precip, None, 0),
       lat |-> lat, moon_factor |-> moon, sun_elevation |-> sun, result |-> None]
      : kp \in KpIndexVals, cloud \in CloudPcts, vis \in VisKms, precip \in PrecipTenths,
        lat \in LatDegs, moon \in MoonFactors, sun \in SunElevations }

\* a direct call of get_recommendation
RecommendationCalls ==
    [fn : {"get_recommendation"}, score : ScoreTenths, kp_index : KpIndexVals,
     cloud_cover : CloudPcts, lat : LatDegs, result : {None}]

InitScore ==
    /\ cache = [k \in Keys |-> None]
    /\ now = 0
    /\ ticks = 0
    /\ clients = ConfiguredClients
    /\ calls = [r \in Requests |-> IdleCall]
    /\ fetches = 0
    /\ lock = None
    /\ ops = NoOps
    /\ pure \in ScoreCalls \cup RecommendationCalls

\* the call runs, once both records could be built
CalculateVisibilityScore ==
    /\ pure.fn = "calculate_visibility_score" /\ pure.result = None
    /\ pure.aurora # ValidationError /\ pure.weather # ValidationError
    /\ \E score \in calculate_visibility_score(pure.aurora, pure.weather, pure.lat,
                                               pure.moon_factor, pure.sun_elevation) :
           pure' = [pure EXCEPT !.result = Some(score)]
    /\ UNCHANGED <<cache, now, ticks, clients, calls, fetches, lock, ops>>

GetRecommendation ==
    /\ pure.fn = "get_recommendation" /\ pure.result = None
    /\ pure' = [pure EXCEPT !.result =
                   Some(get_recommendation(pure.score, pure.kp_index, pure.cloud_cover, pure.lat))]
    /\ UNCHANGED <<cache, now, ticks, clients, calls, fetches, lock, ops>>

NextScore ==
    \/ CalculateVisibilityScore
    \/ GetRecommendation

SpecScore == InitScore /\ [][NextScore]_vars

\* a scoring call that has returned
Scored == pure.fn = "calculate_visibility_score" /\ pure.result # None

\* the sub-scores shown in a breakdown minus the two penalties, in tenths
ShownSum(b) ==
    b.aurora + b.clouds + b.visibility + b.precipitation - b.moon.penalty_pts - b.sun.penalty_pts

\* the total is max(0, round(sum)): never negative, zero when the penalties
\* exceed the sub-scores, otherwise the sum (the aurora sub-score is shown
\* rounded on its own, so the shown sum can be one tenth off the rounded sum)
TotalFollowsFormula(score) ==
    LET sum == ShownSum(score.breakdown) IN
    /\ score.total_score >= 0
    /\ sum < 0 => score.total_score = 0
    /\ sum >= 0 => Abs(score.total_score - sum) <= 1

(***************************************************************************)
(* C15: the total score is max(0, round(aurora + cloud + visibility +      *)
(* precipitation - moon penalty - sun penalty, 1)); it is never negative   *)
(* and it is exactly 0 when the penalties exceed the sub-scores.           *)
(***************************************************************************)
C15_TotalFlooredAtZero ==
    Scored => /\ Val(pure.result) # ValidationError
              /\ TotalFollowsFormula(Val(pure.result))

\* kp = 0, cloud = 100, visibility 1 km, precipitation 3 mm in daylight:
\* 5 points against a penalty of 50, total 0
C15_Witness ==
    /\ Scored
    /\ pure.given = [kp_index |-> 0, cloud_cover |-> 100, visibility_km |-> Some(1),
                     precipitation_mm |-> Tenths(3)]
    /\ pure.moon_factor = 0
    /\ Val(pure.result).breakdown.sun.twilight_phase = "daylight"
    /\ ShownSum(Val(pure.result).breakdown) = Tenths(5) - Tenths(50)
    /\ Val(pure.result).total_score = 0

(***************************************************************************)
(* C16: for every valid input the scores stay in bounds, total in          *)
(* [0, 100], aurora in [0, 40], clouds in [0, 30], visibility in [0, 20],  *)
(* precipitation in [0, 10], so building the VisibilityScore never fails   *)
(* its range validation.                                                   *)
(***************************************************************************)
C16_ScoresInBounds ==
    Scored =>
        LET score == Val(pure.result) IN
        /\ score # ValidationError
        /\ score.total_score \in 0..Tenths(100)
        /\ score.breakdown.aurora \in 0..Tenths(40)
        /\ score.breakdown.clouds \in 0..Tenths(30)
        /\ score.breakdown.visibility \in 0..Tenths(20)
        /\ score.breakdown.precipitation \in 0..Tenths(10)
        /\ score.breakdown.moon.penalty_pts \in 0..Tenths(15)
        /\ score.breakdown.sun.penalty_pts \in {0, Tenths(8), Tenths(20), Tenths(40), Tenths(50)}

\* every sub-score at its maximum and no penalty: the total reaches 100
C16_Witness ==
    /\ Scored
    /\ pure.given.kp_index = 9
    /\ Val(pure.result).breakdown.aurora = Tenths(40)
    /\ Val(pure.result).breakdown.clouds = Tenths(30)
    /\ Val(pure.result).breakdown.visibility = Tenths(20)
    /\ Val(pure.result).breakdown.precipitation = Tenths(10)
    /\ Val(pure.result).total_score = Tenths(100)

(***************************************************************************)
(* C17: in daylight the recommendation is the fixed daylight message and   *)
(* in civil twilight the fixed civil-twilight message, for every score,    *)
(* kp, cloud cover and latitude; the total and the breakdown are the ones  *)
(* of the formula; in the other three phases the recommendation is the     *)
(* text derived from the score band.                                       *)
(***************************************************************************)
C17_DaylightOverridesRecommendation ==
    Scored =>
        LET score == Val(pure.result)
            phase == score.breakdown.sun.twilight_phase
        IN /\ score # ValidationError
           /\ phase = "daylight" =>
                 /\ score.recommendation = [text |-> DaylightMessage, min_kp |-> None]
                 /\ score.breakdown.sun.penalty_pts = Tenths(50)
           /\ phase = "civil_twilight" =>
                 /\ score.recommendation = [text |-> CivilTwilightMessage, min_kp |-> None]
                 /\ score.breakdown.sun.penalty_pts = Tenths(40)
           /\ phase \in {"nautical_twilight", "astronomical_twilight", "darkness"} =>
                 score.recommendation =
                     get_recommendation(score.total_score, pure.given.kp_index,
                                        pure.given.cloud_cover, pure.lat)
           /\ TotalFollowsFormula(score)
           /\ score.breakdown.clouds = Tenths(cloud_score(pure.given.cloud_cover))
           /\ score.breakdown.precipitation = Tenths(precip_score(pure.given.precipitation_mm))

\* civil twilight with an active aurora and a total of 60: the band text
\* would be "Good conditions!", the recommendation is the civil-twilight message
C17_Witness ==
    /\ Scored
    /\ Val(pure.result).breakdown.sun.twilight_phase = "civil_twilight"
    /\ Val(pure.result).total_score = Tenths(60)
    /\ get_recommendation(Val(pure.result).total_score, pure.given.kp_index,
                          pure.given.cloud_cover, pure.lat).text = GoodConditions
    /\ Val(pure.result).recommendation.text = CivilTwilightMessage

\* the three "aurora activity too low" messages
TooLowTexts == {TooLowExcellentWeather, TooLowAnyWeather, TooLowBadWeather}
\* the messages that suggest going outside
OutsideTexts == {ExcellentConditions, GoodActivityModerateCloud, GoodConditions}

(***************************************************************************)
(* C18: whenever kp < minKp(lat), get_recommendation returns one of the    *)
(* three "too low" messages for every score and cloud cover, and never a   *)
(* message that suggests going outside; whenever kp >= minKp(lat) it       *)
(* returns no "too low" message.  kp < (65 - |lat|) / 3 is written         *)
(* 3 kp + |lat| < 65.                                                      *)
(***************************************************************************)
C18_NoOutdoorAdviceBelowThreshold ==
    (pure.fn = "get_recommendation" /\ pure.result # None) =>
        LET text == Val(pure.result).text
            below == 3 * pure.kp_index + Abs(pure.lat) < 65
        IN /\ below => text \in TooLowTexts /\ text \notin OutsideTexts
           /\ ~below => text \notin TooLowTexts

\* a score of 100 under a clear sky with kp 1 at latitude 56: "too low" all the same
C18_Witness ==
    /\ pure.fn = "get_recommendation" /\ pure.result # None
    /\ pure.kp_index = 1 /\ pure.lat = 56 /\ pure.score = Tenths(100) /\ pure.cloud_cover = 0
    /\ Val(pure.result) = [text |-> TooLowExcellentWeather, min_kp |-> Some(Tenths(3))]

(***************************************************************************)
(* C19: the visibility sub-score is the step function > 20 km -> 20,       *)
(* > 10 km -> 15, > 5 km -> 10, otherwise 5; a weather record whose        *)
(* visibility is absent is scored as if it were 15 km (15 points), and     *)
(* scoring never fails on an absent visibility.                            *)
(***************************************************************************)
C19_AbsentVisibilityScoredAsFifteenKm ==
    pure.fn = "calculate_visibility_score" =>
        LET vis == pure.given.visibility_km
            km == IF vis = None THEN 15 ELSE Val(vis)
            points == IF km > 20 THEN 20 ELSE IF km > 10 THEN 15 ELSE IF km > 5 THEN 10 ELSE 5
        IN /\ vis = None => pure.weather # ValidationError
           /\ pure.result # None =>
                 /\ Val(pure.result) # ValidationError
                 /\ Val(pure.result).breakdown.visibility = Tenths(points)

(***************************************************************************)
(* utils/geo.py: bilinear_interpolation.  The grid covers [lat_min,        *)
(* lat_max] x [lon_min, lon_max] = [0, 4] x [0, 4]; with a span of 4 and   *)
(* whole coordinates every float operation of lines 36-51 is exact, and a  *)
(* grid position is a number of quarters of a cell.                        *)
(***************************************************************************)
geo_lat_min == 0
geo_lat_max == 4
geo_lon_min == 0
geo_lon_max == 4

\* the grid with the given numbers of rows and columns; every cell has its own value
GridOf(rows, cols) == [i \in 1..rows |-> [j \in 1..cols |-> 10 * i + j]]
\* grids with no rows and grids whose rows have no columns included
Grids == {GridOf(rows, cols) : rows \in 0..MaxRows, cols \in 0..MaxCols}

\* coordinates inside the covered range, on its edges, and up to one span beyond either edge
GeoLats == (geo_lat_min - (geo_lat_max - geo_lat_min))..(geo_lat_max + (geo_lat_max - geo_lat_min))
GeoLons == (geo_lon_min - (geo_lon_max - geo_lon_min))..(geo_lon_max + (geo_lon_max - geo_lon_min))

IndexError == [error |-> "IndexError"]

\* Python list indexing seq[i]: zero-based, a negative index counts from the
\* end, anything else raises IndexError
list_item(seq, i) ==
    IF i >= 0 /\ i < Len(seq) THEN Some(seq[i + 1])
    ELSE IF i < 0 /\ i >= -Len(seq) THEN Some(seq[Len(seq) + i + 1])
    ELSE None

\* grid[i][j]
grid_item(grid, i, j) ==
    LET row == list_item(grid, i) IN
    IF row = None THEN None ELSE list_item(Val(row), j)

\* mutant of axis_indices: the upper neighbour is not clamped to the last index
axis_indices_NoUpperClamp(offset, span, steps) ==
    LET grid_pos == offset * (steps - 1)
        floor0 == grid_pos \div span
        idx1 == floor0 + 1
        idx0 == Max(0, Min(floor0, steps - 1))
    IN [idx0 |-> idx0, idx1 |-> idx1, frac |-> grid_pos - span * idx0]

\* lines 36-47 for one axis: the grid position in units of 1 / span of a cell
\* (offset is lat_max - lat or lon - lon_min), the two indices and the fraction
axis_indices(offset, span, steps) ==
    LET grid_pos == offset * (steps - 1)
        floor0 == grid_pos \div span
        idx1 == Min(floor0 + 1, steps - 1)
        idx0 == Max(0, Min(floor0, steps - 1))
    IN [idx0 |-> idx0, idx1 |-> idx1, frac |-> grid_pos - span * idx0]

\* mutant of bilinear_interpolation: an empty grid interpolates to 0.0
bilinear_interpolation_EmptyIsZero(grid, lat, lon, lat_min, lat_max, lon_min, lon_max) ==
    LET lat_steps == Len(grid)
        lon_steps == IF lat_steps > 0 THEN Len(grid[1]) ELSE 0
        lat_span == lat_max - lat_min
        lon_span == lon_max - lon_min
        la == axis_indices(lat_max - lat, lat_span, lat_steps)
        lo == axis_indices(lon - lon_min, lon_span, lon_steps)
        v00 == grid_item(grid, la.idx0, lo.idx0)
        v01 == grid_item(grid, la.idx0, lo.idx1)
        v10 == grid_item(grid, la.idx1, lo.idx0)
        v11 == grid_item(grid, la.idx1, lo.idx1)
        used == [lat_idx0 |-> la.idx0, lat_idx1 |-> la.idx1,
                 lon_idx0 |-> lo.idx0, lon_idx1 |-> lo.idx1]
    IN IF lat_steps = 0 \/ lon_steps = 0
       THEN [indices |-> used, value |-> Frac(0, 1)]
       ELSE IF None \in {v00, v01, v10, v11}
       THEN [indices |-> used, value |-> IndexError]
       ELSE LET v0 == Val(v00) * (lon_span - lo.frac) + Val(v01) * lo.frac
                v1 == Val(v10) * (lon_span - lo.frac) + Val(v11) * lo.frac
            IN [indices |-> used,
                value |-> Frac(v0 * (lat_span - la.frac) + v1 * la.frac, lon_span * lat_span)]

\* bilinear_interpolation(grid, lat, lon, lat_min, lat_max, lon_min, lon_max):
\* the four indices used and the returned value as a fraction, or IndexError
bilinear_interpolation(grid, lat, lon, lat_min, lat_max, lon_min, lon_max) ==
    LET lat_steps == Len(grid)
        lon_steps == IF lat_steps > 0 THEN Len(grid[1]) ELSE 0
        lat_span == lat_max - lat_min
        lon_span == lon_max - lon_min
        la == axis_indices(lat_max - lat, lat_span, lat_steps)
        lo == axis_indices(lon - lon_min, lon_span, lon_steps)
        v00 == grid_item(grid, la.idx0, lo.idx0)
        v01 == grid_item(grid, la.idx0, lo.idx1)
        v10 == grid_item(grid, la.idx1, lo.idx0)
        v11 == grid_item(grid, la.idx1, lo.idx1)
        used == [lat_idx0 |-> la.idx0, lat_idx1 |-> la.idx1,
                 lon_idx0 |-> lo.idx0, lon_idx1 |-> lo.idx1]
    IN IF None \in {v00, v01, v10, v11}
       THEN [indices |-> used, value |-> IndexError]
       ELSE LET v0 == Val(v00) * (lon_span - lo.frac) + Val(v01) * lo.frac
                v1 == Val(v10) * (lon_span - lo.frac) + Val(v11) * lo.frac
            IN [indices |-> used,
                value |-> Frac(v0 * (lat_span - la.frac) + v1 * la.frac, lon_span * lat_span)]

InterpolationCalls ==
    [fn : {"bilinear_interpolation"}, grid : Grids, lat : GeoLats, lon : GeoLons,
     result : {None}]

InitGeo ==
    /\ cache = [k \in Keys |-> None]
    /\ now = 0
    /\ ticks = 0
    /\ clients = ConfiguredClients
    /\ calls = [r \in Requests |-> IdleCall]
    /\ fetches = 0
    /\ lock = None
    /\ ops = NoOps
    /\ pure \in InterpolationCalls

BilinearInterpolation ==
    /\ pure.fn = "bilinear_interpolation" /\ pure.result = None
    /\ pure' = [pure EXCEPT !.result =
                   Some(bilinear_interpolation(pure.grid, pure.lat, pure.lon, geo_lat_min,
                                               geo_lat_max, geo_lon_min, geo_lon_max))]
    /\ UNCHANGED <<cache, now, ticks, clients, calls, fetches, lock, ops>>

NextGeo == BilinearInterpolation

SpecGeo == InitGeo /\ [][NextGeo]_vars

\* a grid with no rows, or whose rows have no columns
EmptyGrid(grid) == Len(grid) = 0 \/ Len(grid[1]) = 0

\* an interpolation call that has ended
Interpolated == pure.fn = "bilinear_interpolation" /\ pure.result # None

(***************************************************************************)
(* C20: the interpolator never indexes outside the grid.  For every        *)
(* non-empty grid and every coordinate, on an edge or beyond lat_max,      *)
(* lat_min, lon_min or lon_max, the four cell indices used lie in          *)
(* [0, rows-1] x [0, cols-1].                                              *)
(***************************************************************************)
C20_IndicesInsideGrid ==
    (pure.fn = "bilinear_interpolation" /\ pure.result # None /\ ~EmptyGrid(pure.grid)) =>
        LET used == Val(pure.result).indices
            rows == Len(pure.grid)
            cols == Len(pure.grid[1])
        IN /\ used.lat_idx0 \in 0..(rows - 1)
           /\ used.lat_idx1 \in 0..(rows - 1)
           /\ used.lon_idx0 \in 0..(cols - 1)
           /\ used.lon_idx1 \in 0..(cols - 1)

OnCell(r, c) ==
    /\ pure.lat \in geo_lat_min..geo_lat_max
    /\ pure.lon \in geo_lon_min..geo_lon_max
    /\ (geo_lat_max - pure.lat) * (Len(pure.grid) - 1) = r * (geo_lat_max - geo_lat_min)
    /\ (pure.lon - geo_lon_min) * (Len(pure.grid[1]) - 1) = c * (geo_lon_max - geo_lon_min)

(***************************************************************************)
(* C22: for every grid and every coordinate that falls exactly on a grid   *)
(* cell (row r, column c, row 0 at lat_max), the four corners and the last *)
(* row and last column included, the interpolator returns grid[r][c].      *)
(***************************************************************************)
C22_ExactCellReturnsCellValue ==
    (Interpolated /\ ~EmptyGrid(pure.grid)) =>
        \A r \in 0..(Len(pure.grid) - 1), c \in 0..(Len(pure.grid[1]) - 1) :
            OnCell(r, c) =>
                LET value == Val(pure.result).value IN
                /\ value # IndexError
                /\ value.num = pure.grid[r + 1][c + 1] * value.den

\* the south-east corner of a 3 x 3 grid: last row, last column
C22_Witness ==
    /\ Interpolated
    /\ Len(pure.grid) = 3 /\ Len(pure.grid[1]) = 3
    /\ OnCell(2, 2)
    /\ pure.lat = geo_lat_min /\ pure.lon = geo_lon_max
    /\ Val(pure.result).value # IndexError
    /\ Val(pure.result).value.num = pure.grid[3][3] * Val(pure.result).value.den

(***************************************************************************)
(* services/aurora/noaa_client.py: NOAAClient._estimate_kp_from_probability *)
(* The probability is a whole percentage, the latitude a whole degree, the *)
(* kp index is counted in tenths.                                          *)
(***************************************************************************)
\* lines 128-135: base_kp in tenths, as a fraction
base_kp(probability) ==
    IF probability < 10 THEN Frac(2 * probability, 1)
    ELSE IF probability < 30 THEN Frac(Tenths(2) + (probability - 10), 1)
    ELSE IF probability < 60 THEN Frac(3 * Tenths(4) + 2 * (probability - 30), 3)
    ELSE Frac(4 * Tenths(6) + 3 * (probability - 60), 4)

\* lines 138-142: lat_adjustment in tenths
lat_adjustment(lat) == IF lat < 60 THEN 5 ELSE 0

\* _estimate_kp_from_probability(probability, lat): the values
\* round(min(9.0, base_kp + lat_adjustment), 1) can take, in tenths
estimate_kp_from_probability(probability, lat) ==
    LET base == base_kp(probability)
        sum == Frac(base.num + lat_adjustment(lat) * base.den, base.den)
        kp_index == IF sum.num > Tenths(9) * sum.den THEN Frac(Tenths(9), 1) ELSE sum
    IN round1(kp_index.num, kp_index.den)

\* probabilities the interpolation of a NOAA grid can give, and latitudes of a request
KpProbabilities == 0..100
KpLats == {-90, -70, -60, -59, 0, 59, 60, 61, 90}

KpCalls ==
    [fn : {"_estimate_kp_from_probability"}, probability : KpProbabilities, lat : KpLats,
     result : {None}]

InitKp ==
    /\ cache = [k \in Keys |-> None]
    /\ now = 0
    /\ ticks = 0
    /\ clients = ConfiguredClients
    /\ calls = [r \in Requests |-> IdleCall]
    /\ fetches = 0
    /\ lock = None
    /\ ops = NoOps
    /\ pure \in KpCalls

EstimateKpFromProbability ==
    /\ pure.fn = "_estimate_kp_from_probability" /\ pure.result = None
    /\ \E kp \in estimate_kp_from_probability(pure.probability, pure.lat) :
           pure' = [pure EXCEPT !.result = Some(kp)]
    /\ UNCHANGED <<cache, now, ticks, clients, calls, fetches, lock, ops>>

NextKp == EstimateKpFromProbability

SpecKp == InitKp /\ [][NextKp]_vars

\* the bucket-linear mapping [0,10) -> 0..2, [10,30) -> 2..4, [30,60) -> 4..6,
\* [60,100] -> 6..9 of a probability, times 120
BucketKp120(probability) ==
    IF probability < 10 THEN 24 * probability
    ELSE IF probability < 30 THEN 240 + 12 * (probability - 10)
    ELSE IF probability < 60 THEN 480 + 8 * (probability - 30)
    ELSE 720 + 9 * (probability - 60)

(***************************************************************************)
(* C23: the KP estimate is the bucket-linear mapping of the probability    *)
(* plus an offset of 0.5 applied if and only if |lat| < 60 (so not at      *)
(* latitudes <= -60), clamped to [0, 9], for every probability in          *)
(* [0, 100] and latitude in [-90, 90]; the estimate is that value rounded  *)
(* to one decimal.                                                         *)
(***************************************************************************)
C23_KpEstimateOffsetBelowSixtyDegrees ==
    (pure.fn = "_estimate_kp_from_probability" /\ pure.result # None) =>
        LET offset120 == IF Abs(pure.lat) < 60 THEN 60 ELSE 0
            expected120 == Min(9 * 120, Max(0, BucketKp120(pure.probability) + offset120))
            kp == Val(pure.result)
        IN /\ kp \in 0..Tenths(9)
           /\ 2 * Abs(12 * kp - expected120) <= 12


(***************************************************************************)
(* GET /api/v1/prediction/current (routes/prediction.py).  The route       *)
(* awaits fetch_aurora_data, then fetch_weather_data, then scores the two  *)
(* primaries; any exception becomes an HTTP 500.  The route's position is  *)
(* kept in pure, the aggregator call it awaits in calls["r1"].             *)
(***************************************************************************)
\* raise HTTPException(status_code=500, detail=str(e)), line 64
HTTPException(detail) == [error |-> "HTTPException", status_code |-> 500, detail |-> detail]

\* PredictionResponse(...), lines 48-58 (timestamp left out)
PredictionResponse(lat, aurora, weather, visibility_score) ==
    [lat |-> lat, aurora |-> aurora, weather |-> weather, visibility_score |-> visibility_score]

\* the lat query parameter, in whole degrees
PredictionLats == {56, 65}

\* the client lists the route's aggregator is built with: one or two sources per domain
PredictionClients == [Domains -> {1, 2}]
\* the moon's penalty factor and the sun's elevation at the time of the request
PredictionMoonFactors == {0, 100}
PredictionSunElevations == {35, -30}
\* the clock advances past every entry's expiry
PredictionTickSteps == {cache_ttl_weather}

\* the route has just been entered: nothing awaited yet
NewPrediction(lat) ==
    [fn |-> "get_current_prediction", pc |-> "aurora", lat |-> lat, aurora_data |-> None,
     scored_from |-> None, result |-> None]

\* the weather failure degrades to a prediction without weather and without a score
get_current_prediction_PartialOnWeatherFailure(route, call, moon_factor, sun_elevation) ==
    IF call.pc = "failed" /\ route.pc = "aurora"
    THEN { [route EXCEPT !.pc = "error", !.result = Some(HTTPException(Val(call.error)))] }
    ELSE IF call.pc = "failed"
    THEN { [route EXCEPT !.pc = "returned",
                         !.result = Some(PredictionResponse(route.lat, Val(route.aurora_data),
                                                            None, None))] }
    ELSE IF route.pc = "aurora"
    THEN { [route EXCEPT !.pc = "weather", !.aurora_data = call.response] }
    ELSE LET aurora_data == Val(route.aurora_data)
             weather_data == Val(call.response)
         IN { [route EXCEPT !.pc = "returned",
                            !.scored_from = Some([aurora |-> aurora_data.primary,
                                                  weather |-> weather_data.primary]),
                            !.result = Some(PredictionResponse(route.lat, aurora_data,
                                                               weather_data, Some(score)))]
              : score \in calculate_visibility_score(aurora_data.primary, weather_data.primary,
                                                     route.lat, moon_factor, sun_elevation) }
\* get_current_prediction, lines 32-64: what the route does when the aggregator call it
\* awaits has ended (call.pc is "done" or "failed"); the set of the route's next states
get_current_prediction(route, call, moon_factor, sun_elevation) ==
    IF call.pc = "failed"
    THEN { [route EXCEPT !.pc = "error", !.result = Some(HTTPException(Val(call.error)))] }
    ELSE IF route.pc = "aurora"
    THEN { [route EXCEPT !.pc = "weather", !.aurora_data = call.response] }
    ELSE LET aurora_data == Val(route.aurora_data)
             weather_data == Val(call.response)
         IN { [route EXCEPT !.pc = "returned",
                            !.scored_from = Some([aurora |-> aurora_data.primary,
                                                  weather |-> weather_data.primary]),
                            !.result = Some(PredictionResponse(route.lat, aurora_data,
                                                               weather_data, Some(score)))]
              : score \in calculate_visibility_score(aurora_data.primary, weather_data.primary,
                                                     route.lat, moon_factor, sun_elevation) }

InitPrediction ==
    /\ cache = [k \in Keys |-> None]
    /\ now = 0
    /\ ticks = 0
    /\ clients \in PredictionClients
    /\ calls = [r \in Requests |-> IdleCall]
    /\ fetches = 0
    /\ lock = None
    /\ ops = NoOps
    /\ pure \in {NewPrediction(lat) : lat \in PredictionLats}

\* aurora_data = await aggregator.fetch_aurora_data(lat, lon), line 36;
\* weather_data = await aggregator.fetch_weather_data(lat, lon), line 37
AwaitAggregator(d) ==
    /\ pure.pc = d
    /\ StartCall("r1", d, "loc1")

\* the awaited call ends: the route goes on to its next await, to the scoring
\* (lines 40-60) or to the except clause (lines 62-64)
ResumePrediction(moon_factor, sun_elevation) ==
    /\ pure.pc \in Domains
    /\ Finished(calls["r1"])
    /\ pure' \in get_current_prediction(pure, calls["r1"], moon_factor, sun_elevation)
    /\ calls' = [calls EXCEPT !["r1"] = IdleCall]
    /\ UNCHANGED <<lock, ops, cache, now, ticks, clients, fetches>>

\* the next GET /current arrives
NextRequest ==
    /\ pure.pc \in {"returned", "error"}
    /\ pure' = NewPrediction(pure.lat)
    /\ UNCHANGED <<lock, ops, cache, now, ticks, clients, fetches, calls>>

NextPrediction ==
    \/ \E d \in Domains : AwaitAggregator(d)
    \/ GetCached("r1")
    \/ \E answer \in UpstreamWeather \cup UpstreamAurora : FetchData("r1", answer)
    \/ SetCached("r1")
    \/ \E moon_factor \in PredictionMoonFactors, sun_elevation \in PredictionSunElevations :
          ResumePrediction(moon_factor, sun_elevation)
    \/ NextRequest
    \/ \E delta \in PredictionTickSteps : Tick(delta)

SpecPrediction == InitPrediction /\ [][NextPrediction]_vars

\* the route's awaited aggregator call has ended and the route takes its outcome
RouteResumes ==
    /\ pure.pc \in Domains
    /\ Finished(calls["r1"])
    /\ pure' # pure

\* C24: a prediction needs both domains: when the aurora or the weather aggregation fails
\* with all sources failed the request ends in an HTTP 500 that carries no score and no
\* partial prediction; a score is only produced on resuming from a successful weather
\* aggregation after a successful aurora one, and it is computed from exactly the two
\* primaries of those aggregations
C24_Step ==
    RouteResumes =>
        /\ calls["r1"].pc = "failed" =>
              /\ calls["r1"].response = None
              /\ pure'.pc = "error"
              /\ pure'.result = Some(HTTPException(Val(calls["r1"].error)))
              /\ pure'.scored_from = None
        /\ pure'.scored_from # None =>
              /\ pure.pc = "weather"
              /\ calls["r1"].pc = "done"
              /\ calls["r1"].domain = "weather"
              /\ pure.aurora_data # None
              /\ Val(pure'.scored_from).aurora = Val(pure.aurora_data).primary
              /\ Val(pure'.scored_from).weather = Val(calls["r1"].response).primary
              /\ pure'.pc = "returned"
              /\ Val(pure'.result).visibility_score # None
        /\ pure'.pc = "returned" => pure'.scored_from # None
C24_PredictionNeedsBothDomains == [][C24_Step]_vars

\* a request ended in the service error after its aurora aggregation had succeeded and
\* its weather aggregation had failed with every source failed
C24_Witness ==
    /\ pure.fn = "get_current_prediction"
    /\ pure.pc = "error"
    /\ pure.aurora_data # None
    /\ pure.scored_from = None
    /\ pure.result = Some(HTTPException("All weather data sources failed"))


\* C25: fallback promotion does not depend on the domain: a finished aurora call over
\* three configured clients fails or fills primary/secondary/tertiary exactly as the
\* weather promotion (before patching) does on the same pattern of yielded records; in
\* particular [A fails, B fails, C ok] returns primary = C's record instead of failing
C25_AuroraPromotesAsWeather ==
    \A r \in Requests :
        LET call == calls[r]
            slots == PromoteWeather(call.results)
        IN (Finished(call) /\ call.domain = "aurora" /\ clients["aurora"] = 3) =>
              /\ (call.pc = "failed") <=> (slots.primary = None)
              /\ call.pc = "done" =>
                    /\ Some(Val(call.response).primary) = slots.primary
                    /\ Val(call.response).secondary = slots.secondary
                    /\ Val(call.response).tertiary = slots.tertiary


\* C26: no field patching applies to aurora records: every present slot of a successful
\* aurora result is exactly the record its source yielded in this call (taken from the
\* cache or freshly fetched); a primary without probability keeps it absent whatever the
\* secondary and the tertiary hold
C26_AuroraSlotsAreYieldedRecords ==
    \A r \in Requests :
        LET call == calls[r] IN
        (call.pc = "done" /\ call.domain = "aurora") =>
            \A slot \in {Some(Val(call.response).primary), Val(call.response).secondary,
                         Val(call.response).tertiary} :
                slot # None =>
                    \E i \in 1..Len(call.results) :
                        /\ Val(slot).source = source_name("aurora", i)
                        /\ call.results[i] = slot
                        /\ ~call.log[i].hit => Val(slot) = Fetched(call, i)

\* the primary's source gave no probability while the secondary's did
C26_Witness ==
    \E r \in Requests :
        LET call == calls[r] IN
        /\ call.pc = "done" /\ call.domain = "aurora"
        /\ Val(call.response).primary.probability = None
        /\ Val(call.response).secondary # None
        /\ Val(Val(call.response).secondary).probability = Some(35)


(***************************************************************************)
(* An aggregator whose client list of one domain is longer than the three  *)
(* slots of a response (the lists are plain attributes, aggregator.py      *)
(* 20-32, and the loops take them as they are).  The service has been      *)
(* running: an earlier call stored one source's record at time 0.          *)
(***************************************************************************)
\* one client more than the longest list of the other specifications
ManyClients == MaxClients + 1
ManyKeys == {cache_key(d, source_name(d, i), loc) : d \in Domains, i \in 1..ManyClients, loc \in Locations}
ManyTickSteps == {cache_ttl_aurora}

\* the records a client of the domain can have yielded
Records(d, name) == {fetch_data(d, name, answer) : answer \in Upstream(d)} \ {FetchFailed}

InitMany ==
    /\ \E d \in Domains, i \in 1..ManyClients :
          /\ clients = [e \in Domains |-> IF e = d THEN ManyClients ELSE 1]
          /\ \E rec \in Records(d, source_name(d, i)) :
                cache = CacheSet([k \in ManyKeys |-> None],
                                 cache_key(d, source_name(d, i), "loc1"), rec, cache_ttl(d), 0)
    /\ now = 0
    /\ ticks = 0
    /\ calls = [r \in Requests |-> IdleCall]
    /\ fetches = 0
    /\ lock = None
    /\ ops = NoOps
    /\ pure = NoCall

NextMany ==
    \/ \E d \in Domains : StartCall("r1", d, "loc1")
    \/ GetCached("r1")
    \/ \E answer \in UpstreamWeather \cup UpstreamAurora : FetchData("r1", answer)
    \/ SetCached("r1")
    \/ Return("r1")
    \/ \E delta \in ManyTickSteps : Tick(delta)

SpecMany == InitMany /\ [][NextMany]_vars

\* the i-th client has been consulted once: served from the cache without a
\* fetch, or missed and fetched exactly once
ConsultedOnce(call, i) ==
    \/ call.log[i].hit /\ call.log[i].fetch_calls = 0 /\ call.results[i] # None
    \/ ~call.log[i].hit /\ call.log[i].fetch_calls = 1

\* C27: every configured client is consulted exactly once per aggregator call, in
\* priority order and without short-circuit: the loop moves from client i to client i+1
\* only, whatever client i yielded, and a call finishes only after the last one; a
\* client beyond the third is fetched on a miss and its record cached, and the slots
\* of the result hold records of the first three clients only
C27_Step ==
    \A r \in Requests :
        LET before == calls[r]
            after == calls'[r]
        IN (after # before /\ after.pc # "idle") =>
              /\ after.i \in {before.i, before.i + 1}
              /\ after.i = before.i + 1 =>
                    /\ Len(after.log) = before.i
                    /\ before.i >= 1 => ConsultedOnce(after, before.i)
              /\ Finished(after) =>
                    /\ Len(after.log) = clients[after.domain]
                    /\ Len(after.results) = clients[after.domain]
                    /\ \A i \in 1..Len(after.log) :
                          /\ ConsultedOnce(after, i)
                          /\ after.results[i] # None =>
                                Val(after.results[i]).source = source_name(after.domain, i)
                          /\ (i > 3 /\ SourceOk(after, i)) =>
                                /\ after.log[i].stored_ttl = Some(cache_ttl(after.domain))
                                /\ cache'[cache_key(after.domain, source_name(after.domain, i),
                                                    after.loc)] # None
                    /\ after.pc = "done" =>
                          \A slot \in {Some(Val(after.response).primary),
                                       Val(after.response).secondary,
                                       Val(after.response).tertiary} :
                              slot # None =>
                                  \E i \in 1..3 : /\ i <= Len(after.results)
                                                  /\ after.results[i] = slot
C27_EveryClientConsultedOnceInOrder == [][C27_Step]_vars

\* a call over four or more clients succeeded on its first client, went on to the
\* last one, fetched and cached it, and the last one's record is in no slot
C27_Witness ==
    \E r \in Requests :
        LET call == calls[r]
            n == clients[call.domain]
        IN /\ call.pc = "done" /\ n > 3
           /\ call.results[1] # None
           /\ SourceOk(call, n)
           /\ cache[cache_key(call.domain, source_name(call.domain, n), call.loc)] # None
           /\ call.results[n] \notin {Some(Val(call.response).primary),
                                      Val(call.response).secondary,
                                      Val(call.response).tertiary}


\* the time at which the entry under the key was stored
StoredAt(key) == Val(cache[key]).expires_at - cache_ttl(key[1])

\* C28: a record of source s that was fetched and stored at time t for (domain, location)
\* stays in the cache until a call looks it up after t + TTL(domain); every call that
\* looks it up at a time t' with t <= t' <= t + TTL(domain) takes s's record from the
\* cache and does not call s's fetch, and the first call that looks it up at a time
\* t' > t + TTL(domain) drops it and goes on to call s's fetch
C28_Step ==
    /\ \A k \in Keys :
          cache[k] # None =>
              /\ Val(cache[k]).value.source = k[2]
              /\ StoredAt(k) \in 0..now
              /\ cache'[k] # cache[k] =>
                    \E r \in Requests : /\ StepsFrom(r, "get")
                                        /\ CurrentKey(calls[r]) = k
                                        /\ now > StoredAt(k) + cache_ttl(k[1])
    /\ \A r \in Requests :
          LET call == calls[r]
              after == calls'[r]
              k == CurrentKey(call)
          IN (StepsFrom(r, "get") /\ cache[k] # None) =>
                IF now <= StoredAt(k) + cache_ttl(call.domain)
                THEN /\ after.results = Append(call.results, Some(Val(cache[k]).value))
                     /\ after.log[call.i].hit
                     /\ after.log[call.i].fetch_calls = 0
                     /\ after.pc # "fetch"
                     /\ fetches' = fetches
                     /\ cache' = cache
                ELSE /\ after.pc = "fetch"
                     /\ after.i = call.i
                     /\ after.log[call.i].evicted
                     /\ cache'[k] = None
    /\ \A r \in Requests :
          StepsFrom(r, "fetch") => /\ calls'[r].log[calls[r].i].fetch_calls = 1
                                   /\ fetches' = fetches + 1
C28_CachedForTheDomainTTL == [][C28_Step]_vars

\* one call found a source's entry past its TTL and fetched the source again, and
\* took another source's record from the cache exactly at the end of its TTL
C28_Witness ==
    \E r \in Requests :
        LET call == calls[r] IN
        /\ Finished(call)
        /\ \E i, j \in 1..Len(call.log) :
              /\ call.log[i].evicted /\ call.log[i].fetch_calls = 1 /\ SourceOk(call, i)
              /\ call.log[j].hit
              /\ cache[cache_key(call.domain, source_name(call.domain, j), call.loc)] # None
              /\ StoredAt(cache_key(call.domain, source_name(call.domain, j), call.loc))
                     + cache_ttl(call.domain) = now


\* C29: a failed fetch leaves the cache unchanged: the step in which a client's fetch
\* raises (an upstream error or a rejected record) changes no entry and is not followed
\* by a set, so a failure is never cached and never removes or overwrites an entry; an
\* entry only appears or changes by the set that follows a successful fetch of that
\* source, and a look-up of a source without entry goes on to fetch it
C29_Step ==
    /\ \A r \in RaceRequests :
          LET call == calls[r]
              after == calls'[r]
          IN /\ StepsFrom(r, "fetch") =>
                   /\ cache' = cache
                   /\ (\/ after.log[call.i].answer = Some(HTTPError)
                       \/ Fetched(after, call.i) = FetchFailed) =>
                         /\ after.results = Append(call.results, None)
                         /\ after.pc # "set"
                         /\ after.log[call.i].stored_ttl = None
             /\ (StepsFrom(r, "get") /\ cache[CurrentKey(call)] = None) =>
                   /\ after.pc = "fetch"
                   /\ cache' = cache
    /\ \A k \in Keys :
          (cache'[k] # cache[k] /\ cache'[k] # None) =>
              \E r \in RaceRequests :
                  /\ StepsFrom(r, "set")
                  /\ CurrentKey(calls[r]) = k
                  /\ calls[r].log[calls[r].i].answer # Some(HTTPError)
                  /\ Val(cache'[k]).value = Fetched(calls[r], calls[r].i)
C29_FailedFetchLeavesCacheUnchanged == [][C29_Step]_vars

\* the first source failed and the second succeeded in one call; another call for the
\* same location fetched the first source again and took the second from the cache
C29_Witness ==
    \E r, q \in RaceRequests :
        /\ r # q
        /\ Finished(calls[r]) /\ Finished(calls[q])
        /\ calls[r].domain = calls[q].domain /\ calls[r].loc = calls[q].loc
        /\ SourceFailed(calls[r], 1) /\ SourceOk(calls[r], 2)
        /\ cache[cache_key(calls[r].domain, source_name(calls[r].domain, 1), calls[r].loc)] = None
        /\ ~calls[q].log[1].hit /\ calls[q].log[1].fetch_calls = 1
        /\ calls[q].log[2].hit
        /\ calls[q].results[2] = calls[r].results[2]


\* C30: the visibility patch never modifies a stored or fallback record: after a cold
\* weather call whose promoted primary offered no visibility while a fallback slot had
\* one, the call has succeeded, the cache entry of the primary's source still holds that
\* source's record with visibility absent, and the result's secondary and tertiary are
\* exactly the records their sources offered
C30_PatchLeavesStoredRecords ==
    \A r \in Requests :
        LET call == calls[r]
            slots == OfferedSlots(call)
            key == cache_key("weather", Val(slots.primary).source, call.loc)
        IN (/\ FinishedColdWeather(call)
            /\ slots.primary # None
            /\ Val(slots.primary).visibility_km = None
            /\ FallbackVisibility(slots) # None)
           => /\ call.pc = "done"
              /\ cache[key] # None
              /\ Val(cache[key]).value = Val(slots.primary)
              /\ Val(cache[key]).value.visibility_km = None
              /\ Val(call.response).secondary = slots.secondary
              /\ Val(call.response).tertiary = slots.tertiary

====
